---- MODULE Spec2Model ----
(***************************************************************************)
(* A model of the POK detector calibration script                          *)
(* (src/image-detector/scripts/calibrate.py): the greedy scorer, the       *)
(* dataset loader and splitter, the global search with its tracked-best    *)
(* slots and interrupt handling, the local hill-climbing refinement and    *)
(* the rescaling of the spatial parameters.                                *)
(*                                                                         *)
(* Floating point values are modelled as exact rationals <<num, den>> in   *)
(* lowest terms with den > 0; <<1, 0>> stands for float('inf') and         *)
(* <<-1, 0>> for float('-inf').  np.sqrt is modelled as a fixed-point      *)
(* square root with DistScale fractional steps, exact on perfect squares.  *)
(***************************************************************************)
EXTENDS Integers, Sequences, FiniteSets, TLC

VARIABLES
    \* ---- scorer (calculate_score) ----
    detections,      \* the detection list handed to calculate_score
    annotations,     \* the annotation list handed to calculate_score
    threshold,       \* self.match_threshold
    matched,         \* calculate_score's local list `matched`
    assignment,      \* for each annotation, the index (in `detections`) of the
                     \* detection it was paired with, 0 when unmatched
    score,           \* the record calculate_score returned
    spc              \* "input" before the call, "done" once it returned,
                     \* "ZeroDivisionError" once it raised

scoreVars == <<detections, annotations, threshold, matched, assignment, score, spc>>

VARIABLES
    \* ---- rescaling at the end of optimize ----
    winning,         \* best_params_raw, the winning parameter set
    train_dims,      \* for each training image, the longest edge of the file
    exported,        \* best_params, the parameter record optimize returns
    scored_with,     \* history: the parameter sets passed to evaluate_params
                     \* at lines 732 and 733
    rpc              \* "raw" before the rescaling, "scaled" after it,
                     \* "returned" once optimize returned

rescaleVars == <<winning, train_dims, exported, scored_with, rpc>>

VARIABLES
    \* ---- two calibrator runs splitting the same dataset file ----
    images,          \* dataset['images']: the filenames, in file order
    rng,             \* per run, the state of numpy's global random generator
    split            \* per run, (train_set, val_set) once split_dataset returned

splitVars == <<images, rng, split>>

VARIABLES
    \* ---- one calibration run: __init__, then optimize ----
    dataset,         \* the dataset file and the image files it names
    pc,              \* where the run is
    train_set,       \* self.train_set
    val_set,         \* self.val_set
    tracked,         \* the three tracked-best slots, lines 118-123
    calls_left,      \* objective calls the optimizer has still to make
    cur,             \* the objective call in flight: params and result
    opt_result,      \* the optimizer's own best point and value (result.x, result.fun)
    oracle,          \* what evaluate_params returns on the training set, per
                     \* parameter set evaluated so far (the detector is a function)
    evals_started,   \* objective calls entered
    evals_completed, \* objective calls that returned
    interrupted,     \* line 524 / 557
    best_params_raw, \* lines 570 / 643
    best_score,      \* lines 571 / 643
    best_source,     \* lines 572 / 643
    completed,       \* history: the objective calls that returned, in order,
                     \* each with its parameters and what it measured
    candidate_2,     \* history: the hybrid built at lines 614-619, None when
                     \* it was not built
    reevaluated      \* history: the parameter sets the selection passed to
                     \* evaluate_params at lines 609, 620 and 630

runVars == <<dataset, pc, train_set, val_set, tracked, calls_left, cur, opt_result,
             oracle, evals_started, evals_completed, interrupted,
             best_params_raw, best_score, best_source, completed, candidate_2,
             reevaluated>>

VARIABLES
    \* ---- the local hill-climbing refinement, lines 646-693 ----
    local_iterations,     \* optimize's argument
    iter,                 \* iterations of the loop at line 659 done so far
    current_params,       \* line 654
    current_score,        \* line 655
    no_improvement_count, \* line 656
    improvements,         \* line 657
    initial_score         \* best_score as the refinement found it (line 652)

localVars == <<local_iterations, iter, current_params, current_score,
               no_improvement_count, improvements, initial_score>>

VARIABLES
    \* ---- one call of evaluate_params, lines 333-357 ----
    match_threshold, \* self.match_threshold, line 109
    eval_set,        \* the dataset argument: per image its annotations (poks)
                     \* and what detect_poks returns for it
    per_image,       \* the local list `results`
    total_score,     \* the local total_score
    eval_return,     \* avg_score of the record returned
    epc              \* "loop" while images remain, then "returned"

evalVars == <<match_threshold, eval_set, per_image, total_score, eval_return, epc>>

VARIABLES
    \* ---- one call of neighbor_params, lines 424-477 ----
    base_dict,       \* the dictionary the caller passed as base_params, as it is now
    base_at_call,    \* history: what that dictionary held when the call began
    neighbor_draws,  \* what lines 429, 458 and 465 draw during the call
    neighbor_return, \* the dictionary returned at line 477
    npc              \* "call" before the call, "returned" after it

neighborVars == <<base_dict, base_at_call, neighbor_draws, neighbor_return, npc>>

VARIABLES
    \* ---- ColorClassifier.is_red and is_blue on one pixel, lines 83-100 ----
    pixel,           \* the arguments h, s, v
    color_params,    \* the argument params (its color fields)
    is_red_ret,      \* what is_red returned, "none" before the call
    is_blue_ret      \* what is_blue returned, "none" before the call

colorVars == <<pixel, color_params, is_red_ret, is_blue_ret>>

vars == <<scoreVars, rescaleVars, splitVars, runVars, localVars, evalVars,
          neighborVars, colorVars>>

\* what each part of the script leaves alone
notScore == <<rescaleVars, splitVars, runVars, localVars, evalVars, neighborVars,
              colorVars>>
notRescale == <<scoreVars, splitVars, runVars, localVars, evalVars, neighborVars,
              colorVars>>
notSplit == <<scoreVars, rescaleVars, runVars, localVars, evalVars, neighborVars,
              colorVars>>
notRun == <<scoreVars, rescaleVars, splitVars, localVars, evalVars, neighborVars,
              colorVars>>
notLocal == <<scoreVars, rescaleVars, splitVars, evalVars, neighborVars,
              colorVars>>
notEval == <<scoreVars, rescaleVars, splitVars, runVars, localVars, neighborVars,
              colorVars>>
notNeighbor == <<scoreVars, rescaleVars, splitVars, runVars, localVars, evalVars,
                 colorVars>>
notColor == <<scoreVars, rescaleVars, splitVars, runVars, localVars, evalVars,
              neighborVars>>

-----------------------------------------------------------------------------
(* Bounds of the model *)

MaxCoord == 1        \* circle centres have x in 0..MaxCoord
MaxCircles == 3      \* Len(annotations) + Len(detections) <= MaxCircles, or the
                     \* two lists are the same list of at most MaxCircles circles
MaxThreshold == 2    \* match_threshold ranges over 1..MaxThreshold
DistScale == 1000    \* fixed-point resolution of np.sqrt
MaxTrain == 2        \* rescaling: at most MaxTrain training images
MaxDimSteps == 8     \* image edges are 1..MaxDimSteps quarters of the working size
MaxImages == 3       \* a dataset file lists at most MaxImages images
MaxCalls == 2        \* n_calls, the budget of the global search, is in 1..MaxCalls
MaxScore == 1        \* scores of an evaluation range over 0..MaxScore
MaxLocalIters == 12  \* local_iterations is 0, 1 or MaxLocalIters
MaxLocalScore == 2   \* training scores met by the refinement: 0..MaxLocalScore

-----------------------------------------------------------------------------
(* Exact rational arithmetic standing for Python floats *)

Abs(n) == IF n < 0 THEN -n ELSE n

RECURSIVE GCD(_, _)
GCD(a, b) == IF b = 0 THEN a ELSE GCD(b, a % b)

Norm(n, d) ==
    LET g == GCD(Abs(n), Abs(d))
        s == IF d < 0 THEN -1 ELSE 1
    IN  IF g = 0 THEN <<0, 1>> ELSE <<s * (n \div g), s * (d \div g)>>

R(n) == <<n, 1>>
Inf == <<1, 0>>
NegInf == <<-1, 0>>
\* sums and products cancel common factors first, to stay within 32-bit integers
RAdd(a, b) ==
    LET g == GCD(a[2], b[2])
    IN  IF g = 0 THEN Norm(a[1] + b[1], 0)
        ELSE Norm(a[1] * (b[2] \div g) + b[1] * (a[2] \div g), (a[2] \div g) * b[2])
RSub(a, b) == RAdd(a, <<-b[1], b[2]>>)
RMul(a, b) ==
    LET g1 == GCD(Abs(a[1]), Abs(b[2]))
        g2 == GCD(Abs(b[1]), Abs(a[2]))
    IN  IF g1 = 0 \/ g2 = 0 THEN Norm(a[1] * b[1], a[2] * b[2])
        ELSE Norm((a[1] \div g1) * (b[1] \div g2), (a[2] \div g2) * (b[2] \div g1))
RDiv(a, b) == RMul(a, <<b[2], b[1]>>)
RLess(a, b) == a[1] * b[2] < b[1] * a[2]
RLeq(a, b) == a[1] * b[2] <= b[1] * a[2]

\* the largest k in lo..hi with k * k <= n, by bisection
RECURSIVE ISqrtIn(_, _, _)
ISqrtIn(n, lo, hi) ==
    IF lo >= hi THEN lo
    ELSE LET mid == (lo + hi + 1) \div 2
         IN  IF mid * mid <= n THEN ISqrtIn(n, mid, hi) ELSE ISqrtIn(n, lo, mid - 1)
ISqrt(n) == ISqrtIn(n, 0, n)

\* the greatest f in lo..hi with (r + f / DistScale)^2 <= n, where r * r <= n;
\* the square is compared term by term to stay within 32-bit integers
RECURSIVE FractionIn(_, _, _, _)
FractionIn(n, r, lo, hi) ==
    IF lo >= hi THEN lo
    ELSE LET mid == (lo + hi + 1) \div 2
         IN  IF 2 * r * DistScale * mid + mid * mid <= (n - r * r) * DistScale * DistScale
             THEN FractionIn(n, r, mid, hi)
             ELSE FractionIn(n, r, lo, mid - 1)

\* np.sqrt of a non-negative integer
Sqrt(n) ==
    LET r == ISqrt(n)
    IN  IF r * r = n THEN R(r)
        ELSE Norm(r * DistScale + FractionIn(n, r, 0, DistScale - 1), DistScale)

RECURSIVE SumSeq(_)
SumSeq(s) == IF s = <<>> THEN R(0) ELSE RAdd(Head(s), SumSeq(Tail(s)))

\* np.mean of a non-empty list
Mean(s) == RDiv(SumSeq(s), R(Len(s)))

SeqsUpTo(S, n) == UNION {[1..k -> S] : k \in 0..n}

-----------------------------------------------------------------------------
(* The parameter space, calibrate.py lines 125-145, and parameter sets *)

DetKeys == {"dp", "minDist", "param1", "param2", "minRadius", "maxRadius"}

\* lines 617-618
ColorKeys == {"redH1Low", "redH1High", "redH2Low", "redH2High", "redSMin", "redVMin",
              "blueH1Low", "blueH1High", "blueH2Low", "blueH2High", "blueSMin", "blueVMin"}

\* the resolution-dependent fields, lines 707-709
SpatialKeys == {"minDist", "minRadius", "maxRadius"}

\* lines 126-145: the low ends of the 16 dimensions (blueH2Low/High fixed, 382-383)
ParamLow ==
    [algorithm |-> "hough", dp |-> R(1), minDist |-> 10, param1 |-> 30, param2 |-> 10,
     minRadius |-> 5, maxRadius |-> 20,
     redH1Low |-> 0, redH1High |-> 5, redH2Low |-> 150, redH2High |-> 170,
     redSMin |-> 50, redVMin |-> 50,
     blueH1Low |-> 90, blueH1High |-> 115, blueH2Low |-> 0, blueH2High |-> 0,
     blueSMin |-> 50, blueVMin |-> 50]

\* lines 126-145: the high ends of the 16 dimensions
ParamHigh ==
    [algorithm |-> "hough", dp |-> <<5, 2>>, minDist |-> 80, param1 |-> 200, param2 |-> 60,
     minRadius |-> 50, maxRadius |-> 100,
     redH1Low |-> 10, redH1High |-> 20, redH2Low |-> 175, redH2High |-> 180,
     redSMin |-> 180, redVMin |-> 180,
     blueH1Low |-> 115, blueH1High |-> 140, blueH2Low |-> 0, blueH2High |-> 0,
     blueSMin |-> 180, blueVMin |-> 180]

\* lines 497-514: the default starting point x0
ParamX0 ==
    [algorithm |-> "hough", dp |-> R(1), minDist |-> 20, param1 |-> 100, param2 |-> 30,
     minRadius |-> 10, maxRadius |-> 50,
     redH1Low |-> 0, redH1High |-> 10, redH2Low |-> 160, redH2High |-> 180,
     redSMin |-> 100, redVMin |-> 100,
     blueH1Low |-> 100, blueH1High |-> 130, blueH2Low |-> 0, blueH2High |-> 0,
     blueSMin |-> 100, blueVMin |-> 100]

\* models.py lines 17-38: the ge bounds of DetectorParams
FieldGe ==
    [dp |-> R(1), minDist |-> 10, param1 |-> 30, param2 |-> 10,
     minRadius |-> 5, maxRadius |-> 20,
     redH1Low |-> 0, redH1High |-> 5, redH2Low |-> 150, redH2High |-> 170,
     redSMin |-> 50, redVMin |-> 50,
     blueH1Low |-> 90, blueH1High |-> 115, blueSMin |-> 50, blueVMin |-> 50]

\* models.py lines 17-38: the le bounds of DetectorParams
FieldLe ==
    [dp |-> <<5, 2>>, minDist |-> 80, param1 |-> 200, param2 |-> 60,
     minRadius |-> 50, maxRadius |-> 100,
     redH1Low |-> 10, redH1High |-> 20, redH2Low |-> 175, redH2High |-> 180,
     redSMin |-> 180, redVMin |-> 180,
     blueH1Low |-> 115, blueH1High |-> 140, blueSMin |-> 180, blueVMin |-> 180]

\* models.py lines 10-38: DetectorParams(**fields) accepts the fields
Validates(fields) ==
    /\ fields.algorithm = "hough"
    /\ RLeq(FieldGe.dp, fields.dp) /\ RLeq(fields.dp, FieldLe.dp)
    /\ \A k \in DOMAIN FieldGe \ {"dp"} : FieldGe[k] <= fields[k] /\ fields[k] <= FieldLe[k]

\* lines 126-145: every dimension of the point lies in its closed interval
InSpace(point) ==
    /\ RLeq(ParamLow.dp, point.dp) /\ RLeq(point.dp, ParamHigh.dp)
    /\ \A k \in (DetKeys \cup ColorKeys) \ {"dp", "blueH2Low", "blueH2High"} :
          ParamLow[k] <= point[k] /\ point[k] <= ParamHigh[k]

\* Python's None where a parameter set is expected
None == [algorithm |-> "None"]

\* points of the parameter space the optimizer may propose
ParamSamples == {ParamLow, ParamHigh, ParamX0}

\* lines 615-619: detection fields of det, color fields of col
Hybrid(det, col) == [k \in DOMAIN det |-> IF k \in ColorKeys THEN col[k] ELSE det[k]]

\* the parameter sets that can win the selection
WinningSet == {Hybrid(d, c) : d \in ParamSamples, c \in ParamSamples}

-----------------------------------------------------------------------------
(* Rescaling to the original resolution, calibrate.py lines 695-723 *)

\* line 165
TargetSize == 1280

\* the longest edges of the image files
ImageDims == {k * (TargetSize \div 4) : k \in 1..MaxDimSteps}

\* lines 181-192: the scale load_dataset records for an image
LoadScale(max_dim) == IF max_dim > TargetSize THEN Norm(TargetSize, max_dim) ELSE R(1)

\* line 697
Scales(dims) == [k \in 1..Len(dims) |-> LoadScale(dims[k])]

\* int() of a float rounded up instead of truncated
TruncUp(r) == -((-r[1]) \div r[2])

\* int() of a float: truncation toward zero
Trunc(r) == IF r[1] >= 0 THEN r[1] \div r[2] ELSE -((-r[1]) \div r[2])

\* lines 706-709 dividing param1 as well
RescaleAlsoParam1(raw, scales) ==
    LET avg_scale == Mean(scales)
    IN  [k \in DOMAIN raw |->
            IF k \in SpatialKeys \cup {"param1"}
            THEN Trunc(RDiv(R(raw[k]), avg_scale)) ELSE raw[k]]

\* lines 697-723: best_params from best_params_raw and the training scales
Rescale(raw, scales) ==
    LET avg_scale == Mean(scales)
    IN  [k \in DOMAIN raw |->
            IF k \in SpatialKeys THEN Trunc(RDiv(R(raw[k]), avg_scale)) ELSE raw[k]]

RescaleInit ==
    /\ winning \in WinningSet
    /\ train_dims \in SeqsUpTo(ImageDims, MaxTrain) \ {<<>>}
    /\ exported = None
    /\ scored_with = <<>>
    /\ rpc = "raw"

RescaleIdle ==
    /\ winning = None
    /\ train_dims = <<>>
    /\ exported = None
    /\ scored_with = <<>>
    /\ rpc = "idle"

\* lines 695-723
RescaleParams ==
    /\ rpc = "raw"
    /\ exported' = Rescale(winning, Scales(train_dims))
    /\ rpc' = "scaled"
    /\ UNCHANGED <<winning, train_dims, scored_with>>
    /\ UNCHANGED notRescale

\* lines 732-772: the record is scored on the training and on the validation
\* partition, then returned
FinalScoring ==
    /\ rpc = "scaled"
    /\ scored_with' = <<exported, exported>>
    /\ rpc' = "returned"
    /\ UNCHANGED <<winning, train_dims, exported>>
    /\ UNCHANGED notRescale

RescaleNext ==
    \/ RescaleParams
    \/ FinalScoring

-----------------------------------------------------------------------------
(* split_dataset, calibrate.py lines 205-212.  numpy's generator is modelled *)
(* as a linear congruential generator over RngMod states: what matters is    *)
(* that a shuffle is a function of the generator's state and of the list.    *)

Runs == {1, 2}

\* the states of numpy's global generator
RngMod == 16

\* line 208
SplitSeed == 42

\* np.random.seed(n)
Seed(n) == n % RngMod

\* one draw: the generator's next state
NextRand(st) == (5 * st + 3) % RngMod

Swap(s, i, j) == [s EXCEPT ![i] = s[j], ![j] = s[i]]

\* np.random.shuffle: Fisher-Yates from the last position down
RECURSIVE Shuffle(_, _, _)
Shuffle(s, i, st) ==
    IF i <= 1 THEN [list |-> s, rng |-> st]
    ELSE LET st2 == NextRand(st)
         IN  Shuffle(Swap(s, i, (st2 % i) + 1), i - 1, st2)

\* line 211 with train_ratio = 0.7 (line 115): int(len(images) * 0.7)
SplitIdx(n) == Trunc(RMul(R(n), <<7, 10>>))

\* lines 207-212 without line 208: shuffles from whatever state the generator is in
SplitDatasetUnseeded(imgs, st) ==
    LET sh == Shuffle(imgs, Len(imgs), st)
        split_idx == SplitIdx(Len(imgs))
    IN  [train |-> SubSeq(sh.list, 1, split_idx),
         val |-> SubSeq(sh.list, split_idx + 1, Len(imgs)),
         rng |-> sh.rng]

\* lines 207-212, called with the generator in state st
SplitDataset(imgs, st) ==
    LET sh == Shuffle(imgs, Len(imgs), Seed(SplitSeed))
        split_idx == SplitIdx(Len(imgs))
    IN  [train |-> SubSeq(sh.list, 1, split_idx),
         val |-> SubSeq(sh.list, split_idx + 1, Len(imgs)),
         rng |-> sh.rng]

Filenames == 1..MaxImages

\* the image lists of the dataset files load_dataset accepts: at least one image
ImageLists ==
    {l \in SeqsUpTo(Filenames, MaxImages) :
        l # <<>> /\ \A i, j \in 1..Len(l) : i # j => l[i] # l[j]}

NotSplit == [train |-> <<>>, val |-> <<>>, done |-> FALSE]

SplitInit ==
    /\ images \in ImageLists
    /\ rng \in [Runs -> 0..(RngMod - 1)]
    /\ split = [r \in Runs |-> NotSplit]

SplitIdle ==
    /\ images = <<>>
    /\ rng = [r \in Runs |-> 0]
    /\ split = [r \in Runs |-> NotSplit]

\* anything that draws from np.random before the split
DrawRandom(r) ==
    /\ ~split[r].done
    /\ rng' = [rng EXCEPT ![r] = NextRand(rng[r])]
    /\ UNCHANGED <<images, split>>
    /\ UNCHANGED notSplit

\* line 115: run r calls split_dataset
SplitRun(r) ==
    /\ ~split[r].done
    /\ LET res == SplitDataset(images, rng[r])
       IN  /\ split' = [split EXCEPT ![r] = [train |-> res.train, val |-> res.val,
                                             done |-> TRUE]]
           /\ rng' = [rng EXCEPT ![r] = res.rng]
    /\ UNCHANGED images
    /\ UNCHANGED notSplit

SplitNext == \E r \in Runs : DrawRandom(r) \/ SplitRun(r)

-----------------------------------------------------------------------------
(* calculate_score, calibrate.py lines 276-331 *)

AnnColors == {"red", "blue"}
DetColors == {"red", "blue", "unknown"}
\* circle centres: the points 0..MaxCoord of the x axis and one point off it
Coords == {[x |-> x, y |-> 0] : x \in 0..MaxCoord} \cup {[x |-> 0, y |-> 1]}
Annotation == {[x |-> c.x, y |-> c.y, color |-> k] : c \in Coords, k \in AnnColors}
Detection == {[x |-> c.x, y |-> c.y, color |-> k] : c \in Coords, k \in DetColors}

\* line 290
Distance(det, ann) ==
    Sqrt((det.x - ann.x) * (det.x - ann.x) + (det.y - ann.y) * (det.y - ann.y))

\* line 291 with `dist <= best_dist`: among equidistant detections the last wins
CloserLastWins(dist, thr, best_dist) == RLess(dist, R(thr)) /\ RLeq(dist, best_dist)

\* line 291: the test that makes a detection the new best candidate
Closer(dist, thr, best_dist) == RLess(dist, R(thr)) /\ RLess(dist, best_dist)

\* lines 286-293: scan unmatched_detections (a list of indices into dets)
\* from position j on, carrying best_idx (0 stands for -1) and best_dist
RECURSIVE InnerLoop(_, _, _, _, _, _, _)
InnerLoop(dets, unm, ann, thr, j, best_idx, best_dist) ==
    IF j > Len(unm) THEN [best_idx |-> best_idx, best_dist |-> best_dist]
    ELSE LET dist == Distance(dets[unm[j]], ann)
         IN  IF Closer(dist, thr, best_dist)
             THEN InnerLoop(dets, unm, ann, thr, j + 1, j, dist)
             ELSE InnerLoop(dets, unm, ann, thr, j + 1, best_idx, best_dist)

\* a pop that leaves the detection in the list, free to be matched again
PopNothing(s, i) == s

\* list.pop(i), 1-based
Pop(s, i) == [k \in 1..(Len(s) - 1) |-> IF k < i THEN s[k] ELSE s[k + 1]]

\* list.remove(x): drops the first element equal to x
RECURSIVE RemoveFirst(_, _)
RemoveFirst(s, x) ==
    IF s = <<>> THEN <<>>
    ELSE IF Head(s) = x THEN Tail(s)
    ELSE <<Head(s)>> \o RemoveFirst(Tail(s), x)

\* lines 295-302: what one annotation does to the loop state
MatchStep(dets, ann, thr, st) ==
    LET b == InnerLoop(dets, st.unmatched_detections, ann, thr, 1, 0, Inf)
    IN  IF b.best_idx # 0
        THEN LET d == st.unmatched_detections[b.best_idx]
             IN  [unmatched_detections |-> Pop(st.unmatched_detections, b.best_idx),
                  unmatched_annotations |-> RemoveFirst(st.unmatched_annotations, ann),
                  matched |-> Append(st.matched,
                                     [distance |-> b.best_dist,
                                      color_match |-> (ann.color = dets[d].color)]),
                  assignment |-> Append(st.assignment, d)]
        ELSE [st EXCEPT !.assignment = Append(st.assignment, 0)]

\* lines 281-302: the greedy matching loop over the annotations
RECURSIVE MatchLoop(_, _, _, _, _)
MatchLoop(dets, anns, thr, i, st) ==
    IF i > Len(anns) THEN st
    ELSE MatchLoop(dets, anns, thr, i + 1, MatchStep(dets, anns[i], thr, st))

GreedyMatch(dets, anns, thr) ==
    MatchLoop(dets, anns, thr, 1,
              [unmatched_detections |-> [k \in 1..Len(dets) |-> k],
               unmatched_annotations |-> anns,
               matched |-> <<>>,
               assignment |-> <<>>])

\* lines 309-310 and 314 with 1 instead of 0 on a zero denominator
RatioOneOnZero(num, den) == IF den > 0 THEN Norm(num, den) ELSE R(1)

\* lines 309-310 and 314
Ratio(num, den) == IF den > 0 THEN Norm(num, den) ELSE R(0)

\* line 311
F1Of(precision, recall) ==
    IF RLess(R(0), RAdd(precision, recall))
    THEN RDiv(RMul(R(2), RMul(precision, recall)), RAdd(precision, recall))
    ELSE R(0)

\* line 316 with no penalty when nothing matched
AvgPosErrorZeroDefault(m, thr) ==
    IF m # <<>> THEN Mean([k \in 1..Len(m) |-> m[k].distance]) ELSE R(0)

\* line 316
AvgPosError(m, thr) ==
    IF m # <<>> THEN Mean([k \in 1..Len(m) |-> m[k].distance]) ELSE R(thr)

\* line 319
CombinedScore(f1, color_accuracy, avg_pos_error, thr) ==
    RSub(RAdd(RMul(f1, R(50)), RMul(color_accuracy, R(40))),
         RMul(RDiv(avg_pos_error, R(thr)), R(10)))

\* lines 304-331
Metrics(st, thr) ==
    LET tp == Len(st.matched)
        fp == Len(st.unmatched_detections)
        fn == Len(st.unmatched_annotations)
        precision == Ratio(tp, tp + fp)
        recall == Ratio(tp, tp + fn)
        f1 == F1Of(precision, recall)
        color_correct == Cardinality({k \in 1..tp : st.matched[k].color_match})
        color_accuracy == Ratio(color_correct, tp)
        avg_pos_error == AvgPosError(st.matched, thr)
    IN  [precision |-> precision,
         recall |-> recall,
         f1 |-> f1,
         color_accuracy |-> color_accuracy,
         avg_position_error |-> avg_pos_error,
         true_positives |-> tp,
         false_positives |-> fp,
         false_negatives |-> fn,
         combined_score |-> CombinedScore(f1, color_accuracy, avg_pos_error, thr)]

NoScore == [precision |-> R(0), recall |-> R(0), f1 |-> R(0), color_accuracy |-> R(0),
            avg_position_error |-> R(0), true_positives |-> 0, false_positives |-> 0,
            false_negatives |-> 0, combined_score |-> R(0)]

\* circles in a row, one unit apart, all of one color: with a threshold of 2
\* a circle is in range of its neighbours and not of the circle two units away
RowCircles == {[x |-> x, y |-> 0, color |-> "red"] : x \in 0..(MaxCoord + 1)}

\* the lists handed to calculate_score: any short lists of circles, a list
\* scored against itself, and two annotations against two detections in a row
ScoreInit ==
    /\ \/ /\ annotations \in SeqsUpTo(Annotation, MaxCircles)
          /\ detections \in SeqsUpTo(Detection, MaxCircles - Len(annotations))
                               \cup {annotations}
       \/ /\ annotations \in [1..2 -> RowCircles]
          /\ detections \in [1..2 -> RowCircles]
    /\ threshold \in 0..MaxThreshold
    /\ matched = <<>>
    /\ assignment = <<>>
    /\ score = NoScore
    /\ spc = "input"

\* line 319 divides by the threshold; with nothing matched the dividend is the
\* threshold itself, a Python int, and a zero threshold raises ZeroDivisionError
\* (a zero threshold matches nothing, line 291)
DividesByZero(m, thr) == thr = 0 /\ m = <<>>

\* a matching loop that pops and removes from the argument lists themselves
ListsAfterCallAliased(dets, anns, st) ==
    [detections |-> [k \in 1..Len(st.unmatched_detections) |->
                        dets[st.unmatched_detections[k]]],
     annotations |-> st.unmatched_annotations]

\* lines 282-283: the loop pops and removes from copies of the two argument
\* lists, whose elements it only reads; the arguments are as they were
ListsAfterCall(dets, anns, st) == [detections |-> dets, annotations |-> anns]

\* one call of calculate_score(detections, annotations)
CalculateScore ==
    /\ spc = "input"
    /\ LET st == GreedyMatch(detections, annotations, threshold)
       IN  /\ matched' = st.matched
           /\ assignment' = st.assignment
           /\ IF DividesByZero(st.matched, threshold)
              THEN /\ spc' = "ZeroDivisionError"
                   /\ UNCHANGED score
              ELSE /\ spc' = "done"
                   /\ score' = Metrics(st, threshold)
           /\ detections' = ListsAfterCall(detections, annotations, st).detections
           /\ annotations' = ListsAfterCall(detections, annotations, st).annotations
    /\ UNCHANGED threshold
    /\ UNCHANGED notScore

ScoreNext == CalculateScore

ScoreIdle ==
    /\ annotations = <<>>
    /\ detections = <<>>
    /\ threshold = 1
    /\ matched = <<>>
    /\ assignment = <<>>
    /\ score = NoScore
    /\ spc = "idle"


-----------------------------------------------------------------------------
(* One calibration run: __init__ (lines 106-149), load_dataset (151-203),    *)
(* objective_function (363-422) and optimize up to the choice of the seed of *)
(* the local refinement (479-643).  KeyboardInterrupt is asynchronous: it    *)
(* can be raised between any two statements executed under the try of line  *)
(* 527, so objective_function is modelled statement by statement.            *)

Versions == {"1.0", "2.0", "absent"}

\* what the images directory holds for an entry of the image list
ImageStates == {"ok", "missing", "unreadable"}

\* the dataset files: has_images is FALSE when the file has no 'images' key
Datasets ==
    {d \in [version : Versions, has_images : BOOLEAN,
            images : SeqsUpTo(ImageStates, MaxImages)] :
        ~d.has_images => d.images = <<>>}

Min(S) == CHOOSE x \in S : \A y \in S : x <= y

\* lines 156-176 without the version check of lines 156-157
LoadDatasetAnyVersion(ds) ==
    IF ~ds.has_images \/ ds.images = <<>> THEN "ValueError: no image"
    ELSE LET bad == {i \in 1..Len(ds.images) : ds.images[i] # "ok"}
         IN  IF bad = {} THEN "ok"
             ELSE IF ds.images[Min(bad)] = "missing" THEN "FileNotFoundError"
             ELSE "ValueError: failed to load image"

\* lines 151-203: "ok", or the exception load_dataset raises
LoadDataset(ds) ==
    IF ds.version # "1.0" THEN "ValueError: unsupported version"
    ELSE IF ~ds.has_images \/ ds.images = <<>> THEN "ValueError: no image"
    ELSE LET bad == {i \in 1..Len(ds.images) : ds.images[i] # "ok"}
         IN  IF bad = {} THEN "ok"
             ELSE IF ds.images[Min(bad)] = "missing" THEN "FileNotFoundError"
             ELSE "ValueError: failed to load image"

\* the attributes of lines 118-123 do not exist before __init__ reaches them
TrackedAbsent ==
    [initialised |-> FALSE,
     best_params |-> None, best_score |-> NegInf,
     best_detection_params |-> None, best_detection_score |-> NegInf,
     best_color_params |-> None, best_color_score |-> NegInf]

\* lines 118-123
TrackedInit == [TrackedAbsent EXCEPT !.initialised = TRUE]

Scores == {R(k) : k \in 0..MaxScore}

\* the averaged ratios of lines 391-394: none or all of the circles
Ratios == {R(0), R(1)}

\* line 398
DetectionScore(avg_f1, avg_precision, avg_recall) ==
    RAdd(RAdd(RMul(avg_f1, R(70)), RMul(avg_precision, R(15))), RMul(avg_recall, R(15)))

\* line 401
ColorScore(avg_color) == RMul(avg_color, R(100))

\* what objective_function derives from one evaluation, lines 388-401; the
\* averaged precision, recall and F1 are taken equal
EvalResults ==
    {[avg_score |-> avg, detection_score |-> DetectionScore(d, d, d),
      color_score |-> ColorScore(c)] : avg \in Scores, d \in Ratios, c \in Ratios}

NoEval == [avg_score |-> NegInf, detection_score |-> NegInf, color_score |-> NegInf]
NoCall == [params |-> None, result |-> NoEval]
NoResult == [x |-> None, fun |-> Inf]
EmptyOracle == [q \in {} |-> NoEval]

RunInit ==
    /\ dataset \in Datasets
    /\ pc = "new"
    /\ train_set = <<>>
    /\ val_set = <<>>
    /\ tracked = TrackedAbsent
    /\ calls_left = 0
    /\ cur = NoCall
    /\ opt_result = NoResult
    /\ oracle = EmptyOracle
    /\ evals_started = 0
    /\ evals_completed = 0
    /\ interrupted = FALSE
    /\ best_params_raw = None
    /\ best_score = NegInf
    /\ best_source = <<>>
    /\ completed = <<>>
    /\ reevaluated = {}
    /\ candidate_2 = None

RunIdle ==
    /\ dataset = [version |-> "absent", has_images |-> FALSE, images |-> <<>>]
    /\ pc = "idle"
    /\ train_set = <<>>
    /\ val_set = <<>>
    /\ tracked = TrackedAbsent
    /\ calls_left = 0
    /\ cur = NoCall
    /\ opt_result = NoResult
    /\ oracle = EmptyOracle
    /\ evals_started = 0
    /\ evals_completed = 0
    /\ interrupted = FALSE
    /\ best_params_raw = None
    /\ best_score = NegInf
    /\ best_source = <<>>
    /\ completed = <<>>
    /\ reevaluated = {}
    /\ candidate_2 = None

\* lines 106-149: PokDetectorCalibrator(...)
Construct ==
    /\ pc = "new"
    /\ IF LoadDataset(dataset) # "ok"
       THEN /\ pc' = "load_failed"
            /\ UNCHANGED <<train_set, val_set, tracked>>
       ELSE LET sp == SplitDataset([i \in 1..Len(dataset.images) |-> i], 0)
            IN  /\ train_set' = sp.train
                /\ val_set' = sp.val
                /\ tracked' = TrackedInit
                /\ pc' = "constructed"
    /\ UNCHANGED <<dataset, calls_left, cur, opt_result, oracle, evals_started,
                   evals_completed, interrupted, best_params_raw, best_score, best_source>>
    /\ UNCHANGED <<completed, reevaluated, candidate_2>>
    /\ UNCHANGED notRun

\* lines 479-554: optimize enters gp_minimize / forest_minimize
StartOptimize ==
    /\ pc = "constructed"
    /\ calls_left' \in 1..MaxCalls
    /\ interrupted' = FALSE
    /\ pc' = "search"
    /\ UNCHANGED <<dataset, train_set, val_set, tracked, cur, opt_result, oracle,
                   evals_started, evals_completed, best_params_raw, best_score,
                   best_source>>
    /\ UNCHANGED <<completed, reevaluated, candidate_2>>
    /\ UNCHANGED notRun

\* lines 363-387: the optimizer calls objective_function on a point of the space
Propose ==
    /\ pc = "search"
    /\ calls_left > 0
    /\ \E p \in ParamSamples : cur' = [params |-> p, result |-> NoEval]
    /\ evals_started' = evals_started + 1
    /\ pc' = "L388"
    /\ UNCHANGED <<dataset, train_set, val_set, tracked, calls_left, opt_result, oracle,
                   evals_completed, interrupted, best_params_raw, best_score,
                   best_source>>
    /\ UNCHANGED <<completed, reevaluated, candidate_2>>
    /\ UNCHANGED notRun

Remember(orc, p, res) == [q \in DOMAIN orc \cup {p} |-> IF q = p THEN res ELSE orc[q]]

\* lines 388-401: evaluate_params on the training set; line 355 divides by its size
Evaluate ==
    /\ pc = "L388"
    /\ IF train_set = <<>>
       THEN /\ pc' = "ZeroDivisionError"
            /\ UNCHANGED <<cur, oracle>>
       ELSE \E res \in EvalResults :
               /\ cur.params \in DOMAIN oracle => res = oracle[cur.params]
               /\ oracle' = Remember(oracle, cur.params, res)
               /\ cur' = [cur EXCEPT !.result = res]
               /\ pc' = "L404"
    /\ UNCHANGED <<dataset, train_set, val_set, tracked, calls_left, opt_result,
                   evals_started, evals_completed, interrupted, best_params_raw,
                   best_score, best_source>>
    /\ UNCHANGED <<completed, reevaluated, candidate_2>>
    /\ UNCHANGED notRun

\* a slot that is also taken by an equal score
BeatsOrTies(candidate_score, slot_score) == RLeq(slot_score, candidate_score)

\* lines 404, 409 and 414: a slot is taken by a strictly greater score only
Beats(candidate_score, slot_score) == RLess(slot_score, candidate_score)

\* one statement of lines 404-416; the copies of lines 406, 411 and 416 are
\* statements of their own
TrackStep ==
    /\ \/ /\ pc = "L404"
          /\ IF Beats(cur.result.avg_score, tracked.best_score)
             THEN /\ tracked' = [tracked EXCEPT !.best_score = cur.result.avg_score]
                  /\ pc' = "L406"
             ELSE /\ pc' = "L409"
                  /\ UNCHANGED tracked
       \/ /\ pc = "L406"
          /\ tracked' = [tracked EXCEPT !.best_params = cur.params]
          /\ pc' = "L409"
       \/ /\ pc = "L409"
          /\ IF Beats(cur.result.detection_score, tracked.best_detection_score)
             THEN /\ tracked' = [tracked EXCEPT
                                    !.best_detection_score = cur.result.detection_score]
                  /\ pc' = "L411"
             ELSE /\ pc' = "L414"
                  /\ UNCHANGED tracked
       \/ /\ pc = "L411"
          /\ tracked' = [tracked EXCEPT !.best_detection_params = cur.params]
          /\ pc' = "L414"
       \/ /\ pc = "L414"
          /\ IF Beats(cur.result.color_score, tracked.best_color_score)
             THEN /\ tracked' = [tracked EXCEPT !.best_color_score = cur.result.color_score]
                  /\ pc' = "L416"
             ELSE /\ pc' = "L422"
                  /\ UNCHANGED tracked
       \/ /\ pc = "L416"
          /\ tracked' = [tracked EXCEPT !.best_color_params = cur.params]
          /\ pc' = "L422"
    /\ UNCHANGED <<dataset, train_set, val_set, calls_left, cur, opt_result, oracle,
                   evals_started, evals_completed, interrupted, best_params_raw,
                   best_score, best_source>>
    /\ UNCHANGED <<completed, reevaluated, candidate_2>>
    /\ UNCHANGED notRun

\* line 422: objective_function returns -avg_score; the optimizer keeps the
\* first point of least value as result.x
Return ==
    /\ pc = "L422"
    /\ LET fun == RSub(R(0), cur.result.avg_score)
       IN  opt_result' = IF RLess(fun, opt_result.fun)
                         THEN [x |-> cur.params, fun |-> fun]
                         ELSE opt_result
    /\ evals_completed' = evals_completed + 1
    /\ calls_left' = calls_left - 1
    /\ cur' = NoCall
    /\ pc' = "search"
    /\ completed' = Append(completed, cur)
    /\ UNCHANGED <<reevaluated, candidate_2>>
    /\ UNCHANGED <<dataset, train_set, val_set, tracked, oracle, evals_started,
                   interrupted, best_params_raw, best_score, best_source>>
    /\ UNCHANGED notRun

\* lines 527-554: the search used its budget and returned
SearchDone ==
    /\ pc = "search"
    /\ calls_left = 0
    /\ pc' = "L560"
    /\ UNCHANGED <<dataset, train_set, val_set, tracked, calls_left, cur, opt_result,
                   oracle, evals_started, evals_completed, interrupted,
                   best_params_raw, best_score, best_source>>
    /\ UNCHANGED <<completed, reevaluated, candidate_2>>
    /\ UNCHANGED notRun

\* where the run is while control is under the try of line 527
SearchPcs == {"search", "L388", "L404", "L406", "L409", "L411", "L414", "L416", "L422"}

\* lines 555-557: KeyboardInterrupt raised under the try
Interrupt ==
    /\ pc \in SearchPcs
    /\ interrupted' = TRUE
    /\ pc' = "L560"
    /\ UNCHANGED <<dataset, train_set, val_set, tracked, calls_left, cur, opt_result,
                   oracle, evals_started, evals_completed, best_params_raw,
                   best_score, best_source>>
    /\ UNCHANGED <<completed, reevaluated, candidate_2>>
    /\ UNCHANGED notRun

\* a handler that labels its seed like the third candidate of a completed search
InterruptedSourcePlain == <<"Tracked Best">>

\* line 572: the label of the seed taken after an interrupted search
InterruptedSource == <<"Interrupted - Tracked Best">>

\* lines 560-572
HandleInterrupt ==
    /\ pc = "L560"
    /\ interrupted
    /\ IF tracked.best_params = None
       THEN /\ pc' = "ValueError: interrupted too early"
            /\ UNCHANGED <<best_params_raw, best_score, best_source>>
       ELSE /\ best_params_raw' = tracked.best_params
            /\ best_score' = tracked.best_score
            /\ best_source' = InterruptedSource
            /\ pc' = "local"
    /\ UNCHANGED <<dataset, train_set, val_set, tracked, calls_left, cur, opt_result,
                   oracle, evals_started, evals_completed, interrupted>>
    /\ UNCHANGED <<completed, reevaluated, candidate_2>>
    /\ UNCHANGED notRun

\* a maximum that keeps the last candidate of greatest score
RECURSIVE MaxLast(_, _, _)
MaxLast(cands, i, best) ==
    IF i > Len(cands) THEN best
    ELSE MaxLast(cands, i + 1, IF RLeq(best.score, cands[i].score) THEN cands[i] ELSE best)

\* line 643: max(candidates, key=score) keeps the first candidate of greatest score
RECURSIVE MaxFirst(_, _, _)
MaxFirst(cands, i, best) ==
    IF i > Len(cands) THEN best
    ELSE MaxFirst(cands, i + 1, IF RLess(best.score, cands[i].score) THEN cands[i] ELSE best)

\* the candidates when the hybrid of lines 614-621 is never built
CandidatesWithoutHybrid(orc) ==
    LET c1 == opt_result.x
        c3 == tracked.best_params
        ScoreOf(c) == IF c = None THEN NegInf ELSE orc[c].avg_score
    IN  <<[params |-> c1, score |-> orc[c1].avg_score, source |-> "Optimizer Best"],
          [params |-> None, score |-> NegInf,
           source |-> "Hybrid (Best Det + Best Color)"],
          [params |-> c3, score |-> ScoreOf(c3), source |-> "Tracked Best"]>>

\* lines 608-642: the three candidates, orc giving each its training score
Candidates(orc) ==
    LET c1 == opt_result.x
        c2 == IF tracked.best_detection_params # None /\ tracked.best_color_params # None
              THEN Hybrid(tracked.best_detection_params, tracked.best_color_params)
              ELSE None
        c3 == tracked.best_params
        ScoreOf(c) == IF c = None THEN NegInf ELSE orc[c].avg_score
    IN  <<[params |-> c1, score |-> orc[c1].avg_score, source |-> "Optimizer Best"],
          [params |-> c2, score |-> ScoreOf(c2),
           source |-> "Hybrid (Best Det + Best Color)"],
          [params |-> c3, score |-> ScoreOf(c3), source |-> "Tracked Best"]>>

\* a hybrid written into the tracked best-detection dictionary itself
BuildHybridInPlace(trk) ==
    IF trk.best_detection_params # None /\ trk.best_color_params # None
    THEN LET h == Hybrid(trk.best_detection_params, trk.best_color_params)
         IN  [candidate_2 |-> h, tracked |-> [trk EXCEPT !.best_detection_params = h]]
    ELSE [candidate_2 |-> None, tracked |-> trk]

\* lines 614-626: candidate_2 and the tracked slots once it is built; line 615
\* copies the best-detection dictionary and lines 617-619 write to the copy
BuildHybrid(trk) ==
    IF trk.best_detection_params # None /\ trk.best_color_params # None
    THEN [candidate_2 |-> Hybrid(trk.best_detection_params, trk.best_color_params),
          tracked |-> trk]
    ELSE [candidate_2 |-> None, tracked |-> trk]

\* lines 574-643: normal completion, the best of the three candidates
SelectCandidates ==
    /\ pc = "L560"
    /\ ~interrupted
    /\ LET c2 == Hybrid(tracked.best_detection_params, tracked.best_color_params)
       IN  \E res \in EvalResults :
              /\ c2 \in DOMAIN oracle => res = oracle[c2]
              /\ oracle' = Remember(oracle, c2, res)
              /\ LET cands == Candidates(oracle')
                     win == MaxFirst(cands, 2, cands[1])
                 IN  /\ best_params_raw' = win.params
                     /\ best_score' = win.score
                     /\ best_source' = <<win.source>>
                     /\ reevaluated' = {cands[k].params : k \in 1..Len(cands)} \ {None}
    /\ candidate_2' = BuildHybrid(tracked).candidate_2
    /\ tracked' = BuildHybrid(tracked).tracked
    /\ pc' = "local"
    /\ UNCHANGED <<dataset, train_set, val_set, calls_left, cur, opt_result,
                   evals_started, evals_completed, interrupted>>
    /\ UNCHANGED completed
    /\ UNCHANGED notRun

RunNext ==
    \/ Construct
    \/ StartOptimize
    \/ Propose
    \/ Evaluate
    \/ TrackStep
    \/ Return
    \/ SearchDone
    \/ Interrupt
    \/ HandleInterrupt
    \/ SelectCandidates

-----------------------------------------------------------------------------
(* The local hill-climbing refinement, calibrate.py lines 424-477, 646-693 *)

\* lines 432-449
StepSizes ==
    [dp |-> <<1, 10>>, minDist |-> 5, param1 |-> 10, param2 |-> 5,
     minRadius |-> 5, maxRadius |-> 5,
     redH1Low |-> 1, redH1High |-> 1, redH2Low |-> 1, redH2High |-> 1,
     redSMin |-> 10, redVMin |-> 10,
     blueH1Low |-> 1, blueH1High |-> 1, blueSMin |-> 10, blueVMin |-> 10]

\* lines 452-454
ParamNames == DOMAIN StepSizes

\* np.clip on integers and on floats, line 474
Clip(v, lo, hi) == IF v < lo THEN lo ELSE IF v > hi THEN hi ELSE v
RClip(v, lo, hi) == IF RLess(v, lo) THEN lo ELSE IF RLess(hi, v) THEN hi ELSE v

\* lines 458-475: one mutation; m.name is the parameter drawn at line 458,
\* m.sign the direction and m.steps the 1-2 steps drawn at line 465
Mutate(params, m) ==
    IF m.name = "dp"
    THEN LET change == RMul(R(m.sign * m.steps), StepSizes.dp)
         IN  [params EXCEPT !.dp = RClip(RAdd(params.dp, change),
                                         ParamLow.dp, ParamHigh.dp)]
    ELSE LET change == m.sign * StepSizes[m.name] * m.steps
         IN  [params EXCEPT ![m.name] = Clip(params[m.name] + change,
                                             ParamLow[m.name], ParamHigh[m.name])]

\* lines 424-477: neighbor_params, the mutations applied in the order drawn
RECURSIVE NeighborParams(_, _)
NeighborParams(base_params, draws) ==
    IF draws = <<>> THEN base_params
    ELSE NeighborParams(Mutate(base_params, Head(draws)), Tail(draws))

\* the parameters the model lets line 458 draw
MutatedNames == {"dp", "minDist"}

\* what lines 458 and 465 can draw for one mutation
Mutations == [name : MutatedNames, sign : {-1, 1}, steps : {1, 2}]

\* what lines 429, 458 and 465 can draw for one neighbour: every single
\* mutation, one draw of two mutations and one of three
Draws ==
    {<<m>> : m \in Mutations}
    \cup {<<[name |-> "minDist", sign |-> 1, steps |-> 2],
            [name |-> "dp", sign |-> -1, steps |-> 1]>>,
          <<[name |-> "param1", sign |-> 1, steps |-> 1],
            [name |-> "param1", sign |-> 1, steps |-> 2],
            [name |-> "minDist", sign |-> -1, steps |-> 1]>>}

\* training scores the refinement can meet
LocalScores == {R(k) : k \in 0..MaxLocalScore}

\* line 572 and line 638: labels the selection can hand over, one of the
\* interrupted search and one of the completed search
Sources == {<<"Interrupted - Tracked Best">>, <<"Optimizer Best">>}

\* a test of line 674 that never finds the marker
HasLocalSearchNever(source) == FALSE

\* line 674: "+ Local Search" not in best_source
HasLocalSearch(source) == \E k \in 1..Len(source) : source[k] = "+ Local Search"

\* the refinement's working state as a record
LocalState ==
    [current_params |-> current_params, current_score |-> current_score,
     no_improvement_count |-> no_improvement_count, improvements |-> improvements,
     best_params_raw |-> best_params_raw, best_score |-> best_score,
     best_source |-> best_source]

\* the jump taken one iteration earlier, with `>= 10` at line 680
JumpsOnTenth(st, avg_score) ==
    ~RLess(st.current_score, avg_score) /\ st.no_improvement_count + 1 >= 10

\* lines 664, 677-680: the iteration reaches line 681 and draws a second neighbour
Jumps(st, avg_score) ==
    ~RLess(st.current_score, avg_score) /\ st.no_improvement_count + 1 > 10

\* a hill climb that moves on ties and keeps no separate best
LocalStepMovesOnTies(st, neighbor, avg_score, jump) ==
    IF RLeq(st.current_score, avg_score)
    THEN [st EXCEPT !.current_score = avg_score,
                    !.current_params = neighbor,
                    !.no_improvement_count = 0,
                    !.improvements = @ + 1,
                    !.best_score = avg_score,
                    !.best_params_raw = neighbor]
    ELSE [st EXCEPT !.no_improvement_count = @ + 1]

\* the body of one iteration with `>=` at line 664
LocalStepAcceptsTies(st, neighbor, avg_score, jump) ==
    IF RLeq(st.current_score, avg_score)
    THEN LET moved == [st EXCEPT !.current_score = avg_score,
                                 !.current_params = neighbor,
                                 !.no_improvement_count = 0,
                                 !.improvements = @ + 1]
         IN  IF RLess(st.best_score, avg_score)
             THEN [moved EXCEPT !.best_score = avg_score,
                                !.best_params_raw = neighbor,
                                !.best_source =
                                    IF HasLocalSearch(@) THEN @
                                    ELSE Append(@, "+ Local Search")]
             ELSE moved
    ELSE IF Jumps(st, avg_score)
         THEN [st EXCEPT !.current_params = NeighborParams(st.best_params_raw, jump),
                         !.current_score = st.best_score,
                         !.no_improvement_count = 0]
         ELSE [st EXCEPT !.no_improvement_count = @ + 1]

\* lines 660-687: the body of one iteration; neighbor is line 661's draw,
\* avg_score its training score, jump the draw of line 681
LocalStep(st, neighbor, avg_score, jump) ==
    IF RLess(st.current_score, avg_score)
    THEN LET moved == [st EXCEPT !.current_score = avg_score,
                                 !.current_params = neighbor,
                                 !.no_improvement_count = 0,
                                 !.improvements = @ + 1]
         IN  IF RLess(st.best_score, avg_score)
             THEN [moved EXCEPT !.best_score = avg_score,
                                !.best_params_raw = neighbor,
                                !.best_source =
                                    IF HasLocalSearch(@) THEN @
                                    ELSE Append(@, "+ Local Search")]
             ELSE moved
    ELSE IF Jumps(st, avg_score)
         THEN [st EXCEPT !.current_params = NeighborParams(st.best_params_raw, jump),
                         !.current_score = st.best_score,
                         !.no_improvement_count = 0]
         ELSE [st EXCEPT !.no_improvement_count = @ + 1]

\* the selection handed over a winner; optimize reaches line 646
LocalInit ==
    /\ pc = "local"
    /\ best_params_raw \in {ParamLow, ParamX0}
    /\ best_score \in LocalScores
    /\ best_source \in Sources
    /\ local_iterations \in {0, 1, MaxLocalIters}
    /\ iter = 0
    /\ current_params = None
    /\ current_score = NegInf
    /\ no_improvement_count = 0
    /\ improvements = 0
    /\ initial_score = NegInf
    /\ dataset = [version |-> "absent", has_images |-> FALSE, images |-> <<>>]
    /\ train_set = <<>>
    /\ val_set = <<>>
    /\ tracked = TrackedAbsent
    /\ calls_left = 0
    /\ cur = NoCall
    /\ opt_result = NoResult
    /\ oracle = EmptyOracle
    /\ evals_started = 0
    /\ evals_completed = 0
    /\ interrupted = (best_source = InterruptedSource)
    /\ completed = <<>>
    /\ reevaluated = {}
    /\ candidate_2 = None

\* lines 404-416 run to their end: what one objective call does to the slots
TrackCall(trk, call) ==
    LET a == IF Beats(call.result.avg_score, trk.best_score)
             THEN [trk EXCEPT !.best_score = call.result.avg_score,
                              !.best_params = call.params]
             ELSE trk
        b == IF Beats(call.result.detection_score, a.best_detection_score)
             THEN [a EXCEPT !.best_detection_score = call.result.detection_score,
                            !.best_detection_params = call.params]
             ELSE a
    IN  IF Beats(call.result.color_score, b.best_color_score)
        THEN [b EXCEPT !.best_color_score = call.result.color_score,
                       !.best_color_params = call.params]
        ELSE b

\* lines 363-422 and the optimizer's bookkeeping: the run after the objective
\* calls of `calls`, none of them interrupted
RECURSIVE SearchAfter(_, _)
SearchAfter(st, calls) ==
    IF calls = <<>> THEN st
    ELSE LET call == Head(calls)
             fun == RSub(R(0), call.result.avg_score)
         IN  SearchAfter([tracked |-> TrackCall(st.tracked, call),
                          opt_result |-> IF RLess(fun, st.opt_result.fun)
                                         THEN [x |-> call.params, fun |-> fun]
                                         ELSE st.opt_result,
                          oracle |-> Remember(st.oracle, call.params, call.result),
                          completed |-> Append(st.completed, call)],
                         Tail(calls))

\* the objective calls of the searches whose end the label is studied from:
\* no call at all, one call, and a second call that is best in color only
\* or best in nothing
EndedSearches ==
    LET first == [params |-> ParamX0,
                  result |-> [avg_score |-> R(0),
                              detection_score |-> DetectionScore(R(1), R(1), R(1)),
                              color_score |-> ColorScore(R(0))]]
        color == [params |-> ParamLow,
                  result |-> [avg_score |-> R(0),
                              detection_score |-> DetectionScore(R(0), R(0), R(0)),
                              color_score |-> ColorScore(R(1))]]
        worse == [params |-> ParamLow,
                  result |-> [avg_score |-> R(0),
                              detection_score |-> DetectionScore(R(0), R(0), R(0)),
                              color_score |-> ColorScore(R(0))]]
    IN  {<<>>, <<first>>, <<first, color>>, <<first, worse>>}

\* line 560 is reached: the search returned after its last call, or was
\* interrupted between two calls or before the first; a refinement of no or
\* of two iterations is to follow
SearchEndInit ==
    \E calls \in EndedSearches :
        LET end == SearchAfter([tracked |-> TrackedInit, opt_result |-> NoResult,
                                oracle |-> EmptyOracle, completed |-> <<>>], calls)
            sp == SplitDataset(<<1, 2>>, 0)
        IN  /\ pc = "L560"
            /\ interrupted \in (IF calls = <<>> THEN {TRUE} ELSE BOOLEAN)
            /\ dataset = [version |-> "1.0", has_images |-> TRUE, images |-> <<"ok", "ok">>]
            /\ train_set = sp.train
            /\ val_set = sp.val
            /\ tracked = end.tracked
            /\ opt_result = end.opt_result
            /\ oracle = end.oracle
            /\ completed = end.completed
            /\ calls_left = (IF calls = <<>> THEN 1 ELSE 0)
            /\ cur = NoCall
            /\ evals_started = Len(calls)
            /\ evals_completed = Len(calls)
            /\ best_params_raw = None
            /\ best_score = NegInf
            /\ best_source = <<>>
            /\ reevaluated = {}
            /\ candidate_2 = None
            /\ local_iterations \in {0, 2}
            /\ iter = 0
            /\ current_params = None
            /\ current_score = NegInf
            /\ no_improvement_count = 0
            /\ improvements = 0
            /\ initial_score = NegInf

LocalIdle ==
    /\ local_iterations = 0
    /\ iter = 0
    /\ current_params = None
    /\ current_score = NegInf
    /\ no_improvement_count = 0
    /\ improvements = 0
    /\ initial_score = NegInf

\* what the refinement leaves alone
localFrame == <<dataset, train_set, val_set, tracked, calls_left, cur, opt_result,
                oracle, evals_started, evals_completed, interrupted, local_iterations,
                completed, reevaluated, candidate_2>>

\* lines 646-657
StartLocal ==
    /\ pc = "local"
    /\ IF local_iterations > 0 /\ best_params_raw # None
       THEN /\ current_params' = best_params_raw
            /\ current_score' = best_score
            /\ pc' = "L659"
       ELSE /\ pc' = "L695"
            /\ UNCHANGED <<current_params, current_score>>
    /\ initial_score' = best_score
    /\ no_improvement_count' = 0
    /\ improvements' = 0
    /\ iter' = 0
    /\ UNCHANGED <<best_params_raw, best_score, best_source>>
    /\ UNCHANGED localFrame
    /\ UNCHANGED notLocal

\* lines 659-687: one iteration of the loop
LocalIteration ==
    /\ pc = "L659"
    /\ iter < local_iterations
    /\ \E draws \in Draws, avg_score \in LocalScores :
       \E jump \in IF Jumps(LocalState, avg_score) THEN Draws ELSE {<<>>} :
          LET neighbor == NeighborParams(current_params, draws)
              st == LocalStep(LocalState, neighbor, avg_score, jump)
          IN  /\ current_params' = st.current_params
              /\ current_score' = st.current_score
              /\ no_improvement_count' = st.no_improvement_count
              /\ improvements' = st.improvements
              /\ best_params_raw' = st.best_params_raw
              /\ best_score' = st.best_score
              /\ best_source' = st.best_source
    /\ iter' = iter + 1
    /\ UNCHANGED <<pc, initial_score>>
    /\ UNCHANGED localFrame
    /\ UNCHANGED notLocal

\* lines 659, 689-693: the loop is exhausted
LocalDone ==
    /\ pc = "L659"
    /\ iter = local_iterations
    /\ pc' = "L695"
    /\ UNCHANGED <<best_params_raw, best_score, best_source, iter, current_params,
                   current_score, no_improvement_count, improvements, initial_score>>
    /\ UNCHANGED localFrame
    /\ UNCHANGED notLocal

LocalNext ==
    \/ StartLocal
    \/ LocalIteration
    \/ LocalDone

-----------------------------------------------------------------------------
(* One call of neighbor_params, calibrate.py lines 424-477 *)

\* the parameters the model lets line 458 draw here: a float one, two integer
\* ones with different steps and a hue
NeighborNames == {"dp", "minDist", "param1", "redH1Low"}

\* what lines 458 and 465 can draw for one mutation
NeighborMutations == [name : NeighborNames, sign : {-1, 1}, steps : {1, 2}]

\* line 429 draws 1, 2 or 3 mutations; line 458 draws each name afresh
NeighborDraws == UNION {[1..n -> NeighborMutations] : n \in 1..3}

\* in-bounds parameter sets to start from: both corners of the space and x0
NeighborBases == {ParamLow, ParamHigh, ParamX0}

\* a neighbor_params that mutates its argument in place
NeighborCallInPlace(base, draws) ==
    [base_params |-> NeighborParams(base, draws), ret |-> NeighborParams(base, draws)]

\* lines 426 and 477: the mutations go to a copy, which is returned; the
\* values are numbers, so the shallow copy shares nothing that is written
NeighborCall(base, draws) ==
    [base_params |-> base, ret |-> NeighborParams(base, draws)]

NeighborInit ==
    /\ base_dict \in NeighborBases
    /\ base_at_call = base_dict
    /\ neighbor_draws \in NeighborDraws
    /\ neighbor_return = None
    /\ npc = "call"

NeighborIdle ==
    /\ base_dict = None
    /\ base_at_call = None
    /\ neighbor_draws = <<>>
    /\ neighbor_return = None
    /\ npc = "idle"

\* lines 424-477
NeighborReturn ==
    /\ npc = "call"
    /\ LET out == NeighborCall(base_dict, neighbor_draws)
       IN  /\ base_dict' = out.base_params
           /\ neighbor_return' = out.ret
    /\ npc' = "returned"
    /\ UNCHANGED <<base_at_call, neighbor_draws>>
    /\ UNCHANGED notNeighbor

NeighborNext == NeighborReturn

-----------------------------------------------------------------------------
(* The color classifier's pixel tests, calibrate.py lines 83-100 *)

\* hue sub-ranges (low, high) the parameter files can hold: a proper one and
\* one with equal bounds for each sub-range; blue range 2 is (0, 0) in every
\* parameter set the calibration itself builds (lines 382-383)
Red1Ranges == {<<0, 10>>, <<7, 7>>}
Red2Ranges == {<<160, 180>>, <<172, 172>>}
Blue1Ranges == {<<100, 115>>, <<115, 115>>}
Blue2Ranges == {<<0, 0>>, <<7, 7>>, <<118, 125>>}

\* the color fields of the parameter sets tested
ColorParamSets ==
    {[redH1Low |-> r1[1], redH1High |-> r1[2], redH2Low |-> r2[1], redH2High |-> r2[2],
      redSMin |-> 100, redVMin |-> 100,
      blueH1Low |-> b1[1], blueH1High |-> b1[2], blueH2Low |-> b2[1], blueH2High |-> b2[2],
      blueSMin |-> 100, blueVMin |-> 100] :
        r1 \in Red1Ranges, r2 \in Red2Ranges, b1 \in Blue1Ranges, b2 \in Blue2Ranges}

\* pixels of the HSV image: hues on, inside and outside the sub-ranges,
\* saturation and value on and just below the floors
Pixels == [h : {0, 7, 8, 115, 120, 122, 172, 179}, s : {99, 100}, v : {99, 100}]

\* an is_red that skips a sub-range whose bounds are equal
IsRedDegenerateDisabled(h, s, v, params) ==
    LET s_ok == s >= params.redSMin
        v_ok == v >= params.redVMin
        h_low_range == /\ params.redH1Low # params.redH1High
                       /\ params.redH1Low <= h /\ h <= params.redH1High
        h_high_range == /\ params.redH2Low # params.redH2High
                        /\ params.redH2Low <= h /\ h <= params.redH2High
    IN  (h_low_range \/ h_high_range) /\ s_ok /\ v_ok

\* lines 83-89: is_red
IsRed(h, s, v, params) ==
    LET s_ok == s >= params.redSMin
        v_ok == v >= params.redVMin
        h_low_range == params.redH1Low <= h /\ h <= params.redH1High
        h_high_range == params.redH2Low <= h /\ h <= params.redH2High
    IN  (h_low_range \/ h_high_range) /\ s_ok /\ v_ok

\* lines 92-99: is_blue
IsBlue(h, s, v, params) ==
    LET s_ok == s >= params.blueSMin
        v_ok == v >= params.blueVMin
        h_range1 == params.blueH1Low <= h /\ h <= params.blueH1High
        h_range2 == /\ params.blueH2Low # params.blueH2High
                    /\ params.blueH2Low <= h /\ h <= params.blueH2High
    IN  (h_range1 \/ h_range2) /\ s_ok /\ v_ok

\* Python's True and False as values comparable with "none"
PyBool(b) == IF b THEN "True" ELSE "False"

ColorInit ==
    /\ pixel \in Pixels
    /\ color_params \in ColorParamSets
    /\ is_red_ret = "none"
    /\ is_blue_ret = "none"

ColorIdle ==
    /\ pixel = [h |-> 0, s |-> 0, v |-> 0]
    /\ color_params = None
    /\ is_red_ret = "idle"
    /\ is_blue_ret = "idle"

\* lines 83-89: a call of is_red on the pixel
CallIsRed ==
    /\ is_red_ret = "none"
    /\ is_red_ret' = PyBool(IsRed(pixel.h, pixel.s, pixel.v, color_params))
    /\ UNCHANGED <<pixel, color_params, is_blue_ret>>
    /\ UNCHANGED notColor

\* lines 92-99: a call of is_blue on the pixel
CallIsBlue ==
    /\ is_blue_ret = "none"
    /\ is_blue_ret' = PyBool(IsBlue(pixel.h, pixel.s, pixel.v, color_params))
    /\ UNCHANGED <<pixel, color_params, is_red_ret>>
    /\ UNCHANGED notColor

ColorNext ==
    \/ CallIsRed
    \/ CallIsBlue

-----------------------------------------------------------------------------
(* evaluate_params over a dataset, calibrate.py lines 333-357 *)

\* line 106: the default match_threshold
DefaultMatchThreshold == 50

\* where the three annotated circles of an image lie on the x axis
Layouts == {<<0, 6, 100>>, <<0, 10, 100>>, <<0, 40, 100>>}

\* the colors of the three circles, both colors present
Colorings == {<<"red", "blue", "red">>, <<"blue", "blue", "red">>}

\* displacements of less than 5 px
Perturbations == {[dx |-> -4, dy |-> 0], [dx |-> 4, dy |-> 0], [dx |-> 3, dy |-> 3]}

\* an image: its annotations and the detections, which are the annotations
\* displaced, in the same order and with the same colors
PerturbedImages ==
    {[poks |-> [k \in 1..3 |-> [x |-> l[k], y |-> 0, color |-> c[k]]],
      detected |-> [k \in 1..3 |-> [x |-> l[k] + d[k].dx, y |-> d[k].dy,
                                    color |-> c[k]]]] :
        l \in Layouts, c \in Colorings, d \in [1..3 -> Perturbations]}

\* the sum returned as it is
AvgScoreUndivided(total, n) == total

\* line 355
AvgScore(total, n) == RDiv(total, R(n))

EvalInit ==
    /\ match_threshold = DefaultMatchThreshold
    /\ eval_set \in [1..2 -> PerturbedImages]
    /\ per_image = <<>>
    /\ total_score = R(0)
    /\ eval_return = NegInf
    /\ epc = "loop"

EvalIdle ==
    /\ match_threshold = DefaultMatchThreshold
    /\ eval_set = <<>>
    /\ per_image = <<>>
    /\ total_score = R(0)
    /\ eval_return = NegInf
    /\ epc = "idle"

\* lines 345-352: one iteration of the loop over the dataset
EvaluateImage ==
    /\ epc = "loop"
    /\ Len(per_image) < Len(eval_set)
    /\ LET img_data == eval_set[Len(per_image) + 1]
           st == GreedyMatch(img_data.detected, img_data.poks, match_threshold)
           image_score == Metrics(st, match_threshold)
       IN  /\ per_image' = Append(per_image, image_score)
           /\ total_score' = RAdd(total_score, image_score.combined_score)
    /\ UNCHANGED <<match_threshold, eval_set, eval_return, epc>>
    /\ UNCHANGED notEval

\* lines 354-357
EvaluateReturn ==
    /\ epc = "loop"
    /\ Len(per_image) = Len(eval_set)
    /\ eval_return' = AvgScore(total_score, Len(eval_set))
    /\ epc' = "returned"
    /\ UNCHANGED <<match_threshold, eval_set, per_image, total_score>>
    /\ UNCHANGED notEval

EvalNext ==
    \/ EvaluateImage
    \/ EvaluateReturn

-----------------------------------------------------------------------------
(* Specifications: each studies one part of the script and leaves the       *)
(* variables of the other parts idle.                                        *)

InitScore ==
    ScoreInit /\ RescaleIdle /\ SplitIdle /\ RunIdle /\ LocalIdle /\ EvalIdle /\ NeighborIdle
    /\ ColorIdle
SpecScore == InitScore /\ [][ScoreNext]_vars

InitRescale ==
    RescaleInit /\ ScoreIdle /\ SplitIdle /\ RunIdle /\ LocalIdle /\ EvalIdle /\ NeighborIdle
    /\ ColorIdle
SpecRescale == InitRescale /\ [][RescaleNext]_vars

InitSplit ==
    SplitInit /\ ScoreIdle /\ RescaleIdle /\ RunIdle /\ LocalIdle /\ EvalIdle /\ NeighborIdle
    /\ ColorIdle
SpecSplit == InitSplit /\ [][SplitNext]_vars

Init ==
    RunInit /\ ScoreIdle /\ RescaleIdle /\ SplitIdle /\ LocalIdle /\ EvalIdle /\ NeighborIdle
    /\ ColorIdle
Next == RunNext
Spec == Init /\ [][Next]_vars

InitLocal ==
    LocalInit /\ ScoreIdle /\ RescaleIdle /\ SplitIdle /\ EvalIdle /\ NeighborIdle
    /\ ColorIdle
SpecLocal == InitLocal /\ [][LocalNext]_vars

InitNeighbor ==
    NeighborInit /\ ScoreIdle /\ RescaleIdle /\ SplitIdle /\ RunIdle /\ LocalIdle /\ EvalIdle
    /\ ColorIdle
SpecNeighbor == InitNeighbor /\ [][NeighborNext]_vars

\* from the end of the search to the end of the refinement
InitLabel ==
    SearchEndInit /\ ScoreIdle /\ RescaleIdle /\ SplitIdle /\ EvalIdle /\ NeighborIdle
    /\ ColorIdle
LabelNext ==
    \/ HandleInterrupt
    \/ SelectCandidates
    \/ StartLocal
    \/ LocalIteration
    \/ LocalDone
SpecLabel == InitLabel /\ [][LabelNext]_vars

InitColor ==
    ColorInit /\ ScoreIdle /\ RescaleIdle /\ SplitIdle /\ RunIdle /\ LocalIdle /\ EvalIdle
    /\ NeighborIdle
SpecColor == InitColor /\ [][ColorNext]_vars

InitEval ==
    EvalInit /\ ScoreIdle /\ RescaleIdle /\ SplitIdle /\ RunIdle /\ LocalIdle /\ NeighborIdle
    /\ ColorIdle
SpecEval == InitEval /\ [][EvalNext]_vars

-----------------------------------------------------------------------------
(* Claims about calculate_score, checked under SpecScore *)

Scored == spc = "done"
AllOnes ==
    /\ score.precision = R(1)
    /\ score.recall = R(1)
    /\ score.f1 = R(1)
    /\ score.color_accuracy = R(1)
    /\ score.combined_score = R(90)

\* C1 as stated: for any annotation list, detections identical to the
\* annotations score precision = recall = F1 = color accuracy = 1 and a
\* combined score of 90.
C1_IdenticalAnyList == (Scored /\ detections = annotations) => AllOnes

\* C1 as amended: for any non-empty annotation list, detections identical to
\* the annotations score precision = recall = F1 = color accuracy = 1 and a
\* combined score of 90.
C1_IdenticalNonEmpty ==
    (Scored /\ detections = annotations /\ annotations # <<>>) => AllOnes

\* two circles of different colors on the same centre, scored against themselves
C1_Witness ==
    /\ Scored
    /\ detections = annotations
    /\ \E i, j \in 1..Len(annotations) :
          /\ i < j
          /\ annotations[i].x = annotations[j].x
          /\ annotations[i].y = annotations[j].y
          /\ annotations[i].color # annotations[j].color
    /\ AllOnes

\* squared distance between detection j and annotation i
D2(j, i) ==
    (detections[j].x - annotations[i].x) * (detections[j].x - annotations[i].x)
    + (detections[j].y - annotations[i].y) * (detections[j].y - annotations[i].y)

\* the detections still unmatched when annotation i is processed
FreeAt(i) == (1..Len(detections)) \ {assignment[k] : k \in 1..(i - 1)}

\* the unmatched detections strictly closer than match_threshold to annotation i
CandidatesAt(i) == {j \in FreeAt(i) : D2(j, i) < threshold * threshold}

\* C2: matching is greedy in annotation order: each annotation is paired with
\* the nearest still-unmatched detection closer than match_threshold, the
\* earliest in the detection list among equidistant ones; it stays unmatched
\* only when no unmatched detection is that close; no detection is paired
\* twice.  The assignment is a function of the two lists.
C2_GreedyAssignment ==
    Scored =>
        /\ Len(assignment) = Len(annotations)
        /\ \A i \in 1..Len(annotations) :
              IF CandidatesAt(i) = {}
              THEN assignment[i] = 0
              ELSE /\ assignment[i] \in CandidatesAt(i)
                   /\ \A j \in CandidatesAt(i) :
                         /\ D2(assignment[i], i) <= D2(j, i)
                         /\ D2(j, i) = D2(assignment[i], i) => assignment[i] <= j
        /\ \A i, k \in 1..Len(annotations) :
              (i # k /\ assignment[i] # 0) => assignment[i] # assignment[k]

\* an annotation with two equidistant detections in range takes the first, and
\* a later annotation is left with the other or with nothing
C2_Witness ==
    /\ Scored
    /\ Len(annotations) >= 1
    /\ \E j1, j2 \in 1..Len(detections) :
          /\ j1 < j2
          /\ D2(j1, 1) = D2(j2, 1)
          /\ D2(j1, 1) < threshold * threshold
          /\ detections[j1].color # detections[j2].color
          /\ assignment[1] = j1

\* C3: combined_score = 50*F1 + 40*color_accuracy - 10*(avg_position_error /
\* match_threshold); avg_position_error is the mean distance of the matched
\* pairs, and match_threshold when nothing matched; precision, recall, F1 and
\* color accuracy are 0 when their denominators are 0.
C3_CombinedFormula ==
    Scored =>
        LET tp == score.true_positives
            fp == score.false_positives
            fn == score.false_negatives
            hits == Cardinality({k \in 1..Len(matched) : matched[k].color_match})
            p == score.precision
            r == score.recall
        IN  /\ tp = Len(matched)
            /\ p = (IF tp + fp = 0 THEN R(0) ELSE Norm(tp, tp + fp))
            /\ r = (IF tp + fn = 0 THEN R(0) ELSE Norm(tp, tp + fn))
            /\ score.f1 = (IF RAdd(p, r) = R(0) THEN R(0)
                           ELSE RDiv(RMul(R(2), RMul(p, r)), RAdd(p, r)))
            /\ score.color_accuracy = (IF tp = 0 THEN R(0) ELSE Norm(hits, tp))
            /\ score.avg_position_error =
                  (IF tp = 0 THEN R(threshold)
                   ELSE RDiv(SumSeq([k \in 1..tp |-> matched[k].distance]), R(tp)))
            /\ score.combined_score =
                  RSub(RAdd(RMul(R(50), score.f1), RMul(R(40), score.color_accuracy)),
                       RMul(R(10), RDiv(score.avg_position_error, R(threshold))))

\* circles on both sides, none close enough: the penalty alone is left
C3_Witness ==
    /\ Scored
    /\ annotations # <<>>
    /\ detections # <<>>
    /\ matched = <<>>
    /\ score.avg_position_error = R(threshold)
    /\ score.combined_score = R(-10)

\* C4: no detections against N > 0 annotations gives true_positives = 0,
\* false_negatives = N and F1 = 0; no annotations against M > 0 detections
\* gives false_positives = M, precision = 0 and recall = 0.
C4_DegenerateSides ==
    /\ (Scored /\ detections = <<>> /\ annotations # <<>>) =>
          /\ score.true_positives = 0
          /\ score.false_negatives = Len(annotations)
          /\ score.f1 = R(0)
    /\ (Scored /\ annotations = <<>> /\ detections # <<>>) =>
          /\ score.false_positives = Len(detections)
          /\ score.precision = R(0)
          /\ score.recall = R(0)

C4_Witness ==
    /\ Scored
    /\ annotations = <<>>
    /\ Len(detections) >= 2
    /\ score.false_positives = Len(detections)
    /\ score.recall = R(0)

-----------------------------------------------------------------------------
(* Claims about the rescaling, checked under SpecRescale *)

Rescaled == rpc \in {"scaled", "returned"}

\* field / mean(scales), exactly
Quotient(k) == RDiv(R(winning[k]), Mean(Scales(train_dims)))

\* round(): to the nearest integer, a half to the even neighbour
RoundNearest(r) ==
    LET f == r[1] \div r[2]
        twice == 2 * (r[1] - f * r[2])
    IN  IF twice < r[2] THEN f
        ELSE IF twice > r[2] THEN f + 1
        ELSE IF f % 2 = 0 THEN f ELSE f + 1

\* C6 as stated: the exported minDist, minRadius and maxRadius are the winning
\* values divided by the mean training scale and rounded to the nearest integer.
C6_RoundedToNearest ==
    Rescaled => \A k \in SpatialKeys : exported[k] = RoundNearest(Quotient(k))

\* C6 as amended: the exported minDist, minRadius and maxRadius are the winning
\* values divided by the mean training scale and truncated to an integer: the
\* largest integer not above the quotient.
C6_Truncated ==
    Rescaled =>
        \A k \in SpatialKeys :
            /\ RLeq(R(exported[k]), Quotient(k))
            /\ RLess(Quotient(k), R(exported[k] + 1))

\* a quotient with a fractional part above one half is cut down, not rounded up
C6_Witness ==
    /\ Rescaled
    /\ \E k \in SpatialKeys :
          /\ RLess(RAdd(R(exported[k]), <<1, 2>>), Quotient(k))
          /\ exported[k] # RoundNearest(Quotient(k))

\* C7: rescaling changes no field other than minDist, minRadius and maxRadius,
\* and with every training scale 1.0 the rescaled set equals the winning set.
C7_RescaleFrame ==
    Rescaled =>
        /\ DOMAIN exported = DOMAIN winning
        /\ \A k \in DOMAIN winning \ SpatialKeys : exported[k] = winning[k]
        /\ (\A i \in 1..Len(train_dims) : LoadScale(train_dims[i]) = R(1))
              => exported = winning

\* a rescaling that moved the spatial fields and nothing else
C7_Witness ==
    /\ Rescaled
    /\ \E i \in 1..Len(train_dims) : LoadScale(train_dims[i]) # R(1)
    /\ \A k \in SpatialKeys : exported[k] # winning[k]
    /\ exported.param1 = winning.param1
    /\ exported.dp = winning.dp

-----------------------------------------------------------------------------
(* Claims about split_dataset, checked under SpecSplit *)

\* C8: two runs over the same dataset file produce the same train partition
\* and the same validation partition, image for image, whatever state the
\* random generator was in before the split.
C8_SplitDeterministic ==
    (\A r \in Runs : split[r].done) =>
        /\ split[1].train = split[2].train
        /\ split[1].val = split[2].val

\* both runs split a dataset of at least three images, the shuffle having
\* moved an image, after their generators had been left in different states
C8_Witness ==
    /\ \A r \in Runs : split[r].done
    /\ Len(images) >= 3
    /\ split[1].train \o split[1].val # images
    /\ split[1].train # <<>>
    /\ split[1].val # <<>>
    /\ SplitDatasetUnseeded(images, 1).train # SplitDatasetUnseeded(images, 2).train

-----------------------------------------------------------------------------
(* Claims about loading and about the interrupted search, checked under Spec *)

\* a dataset file of the kinds the claim names
BadDataset ==
    \/ dataset.version # "1.0"
    \/ ~dataset.has_images
    \/ dataset.images = <<>>
    \/ \E i \in 1..Len(dataset.images) : dataset.images[i] = "missing"

\* C9: a dataset whose version is not "1.0", whose image list is missing or
\* empty, or that names an image file that does not exist makes the load fail,
\* and it fails before any objective evaluation or search step: no
\* tracked-best slot is ever written.
C9_LoadFailsBeforeSearch ==
    (pc # "new" /\ BadDataset) =>
        /\ pc = "load_failed"
        /\ tracked = TrackedAbsent
        /\ evals_started = 0
        /\ oracle = EmptyOracle
        /\ best_params_raw = None

\* the second image file is missing: the first was loaded, then the load failed
C9_Witness ==
    /\ pc = "load_failed"
    /\ dataset.version = "1.0"
    /\ Len(dataset.images) >= 2
    /\ dataset.images[1] = "ok"
    /\ dataset.images[2] = "missing"
    /\ tracked = TrackedAbsent

\* C10: when the global search is aborted, optimize continues with the
\* tracked-best-overall parameters and score if at least one objective
\* evaluation completed, and fails with an error of its own, returning no
\* parameter set, if none completed.
C10_AbortDichotomy ==
    (interrupted /\ pc # "L560") =>
        IF evals_completed >= 1
        THEN /\ pc = "local"
             /\ best_params_raw = tracked.best_params
             /\ best_score = tracked.best_score
        ELSE /\ pc = "ValueError: interrupted too early"
             /\ best_params_raw = None

-----------------------------------------------------------------------------
(* Claims about the local refinement, checked under SpecLocal *)

\* C5: the local refinement never regresses: the best score only grows, it is
\* never below the score the refinement was seeded with, and best_params_raw
\* changes only in an iteration where best_score strictly increases.
C5_NeverRegresses ==
    /\ [](pc \in {"L659", "L695"} => RLeq(initial_score, best_score))
    /\ [][/\ RLeq(best_score, best_score')
          /\ best_params_raw' # best_params_raw => RLess(best_score, best_score')]_vars

\* a neighbour was promoted, and a later neighbour that was no better was dropped
C5_Witness ==
    /\ pc = "L659"
    /\ improvements >= 1
    /\ RLess(initial_score, best_score)
    /\ no_improvement_count >= 1
    /\ best_params_raw = current_params

-----------------------------------------------------------------------------
(* Claims about the tracked-best slots, checked under Spec *)

\* the first of the completed evaluations that reached the greatest value of
\* the criterion
FirstMax(criterion) ==
    CHOOSE k \in 1..Len(completed) :
        /\ \A j \in 1..Len(completed) :
              RLeq(completed[j].result[criterion], completed[k].result[criterion])
        /\ \A j \in 1..(k - 1) :
              RLess(completed[j].result[criterion], completed[k].result[criterion])

\* no objective call is in flight and none was cut short
BetweenEvaluations == pc = "search" \/ (pc = "L560" /\ ~interrupted)

\* C11: after k >= 1 completed objective evaluations each of the three
\* tracked-best slots (overall, detection, color) is populated and holds the
\* running maximum of its criterion over those evaluations together with the
\* parameters of the first evaluation that reached it; each tracked score is
\* non-decreasing.
C11_TrackedRunningMax ==
    /\ []((BetweenEvaluations /\ Len(completed) >= 1) =>
            /\ tracked.best_params = completed[FirstMax("avg_score")].params
            /\ tracked.best_score = completed[FirstMax("avg_score")].result.avg_score
            /\ tracked.best_detection_params =
                  completed[FirstMax("detection_score")].params
            /\ tracked.best_detection_score =
                  completed[FirstMax("detection_score")].result.detection_score
            /\ tracked.best_color_params = completed[FirstMax("color_score")].params
            /\ tracked.best_color_score =
                  completed[FirstMax("color_score")].result.color_score
            /\ tracked.best_params # None
            /\ tracked.best_detection_params # None
            /\ tracked.best_color_params # None)
    /\ [][/\ RLeq(tracked.best_score, tracked.best_score')
          /\ RLeq(tracked.best_detection_score, tracked.best_detection_score')
          /\ RLeq(tracked.best_color_score, tracked.best_color_score')]_vars

\* two evaluations of different parameters completed; the second tied the
\* first on the overall score and beat it on the detection score
C11_Witness ==
    /\ pc = "search"
    /\ Len(completed) = 2
    /\ completed[1].params # completed[2].params
    /\ completed[1].result.avg_score = completed[2].result.avg_score
    /\ RLess(completed[1].result.detection_score, completed[2].result.detection_score)
    /\ tracked.best_params = completed[1].params
    /\ tracked.best_detection_params = completed[2].params

-----------------------------------------------------------------------------
(* Claims about the candidate selection, checked under Spec *)

\* the hybrid of lines 614-619, None when a slot it needs is empty
HybridCandidate ==
    IF tracked.best_detection_params # None /\ tracked.best_color_params # None
    THEN Hybrid(tracked.best_detection_params, tracked.best_color_params)
    ELSE None

\* the candidates the tracked slots allow, the optimizer's own best point
\* being one of them after a normal completion only
Built ==
    ({HybridCandidate, tracked.best_params}
        \cup (IF interrupted THEN {} ELSE {opt_result.x})) \ {None}

\* the seed handed to the refinement is the best of the set of candidates, each
\* freshly evaluated on the training partition
SeedIsBestOf(cands) ==
    /\ reevaluated = cands
    /\ best_params_raw \in cands
    /\ \A c \in cands : c \in DOMAIN oracle /\ RLeq(oracle[c].avg_score, best_score)
    /\ best_score = oracle[best_params_raw].avg_score

\* C12 as stated: the selection runs after the global search ends, normally or
\* by cancellation: in both cases the hybrid and the tracked-best candidates
\* are built and re-evaluated on the training partition (the optimizer's best
\* point on normal completion only) and the seed of the refinement is the best
\* of the candidates built.
C12_SelectionOnEveryEnd == pc = "local" => SeedIsBestOf(Built)

\* C12 amended: the selection runs on normal completion only; after a
\* cancellation nothing is built or re-evaluated and the seed is the
\* tracked-best-overall slot with its tracked score.
C12_SelectionOnNormalEnd ==
    pc = "local" =>
        IF interrupted
        THEN /\ reevaluated = {}
             /\ best_params_raw = tracked.best_params
             /\ best_score = tracked.best_score
             /\ best_source = <<"Interrupted - Tracked Best">>
        ELSE SeedIsBestOf(Built)

\* the search was cancelled with a hybrid at hand that differs from every
\* parameter set evaluated, and the refinement was seeded without it
C12_Witness ==
    /\ pc = "local"
    /\ interrupted
    /\ HybridCandidate # None
    /\ HybridCandidate \notin DOMAIN oracle
    /\ best_params_raw = tracked.best_params

\* the three candidates in the order optimizer, hybrid, tracked, each with its
\* label; None stands for a missing candidate
Available ==
    <<[params |-> opt_result.x, source |-> "Optimizer Best"],
      [params |-> HybridCandidate, source |-> "Hybrid (Best Det + Best Color)"],
      [params |-> tracked.best_params, source |-> "Tracked Best"]>>

\* the training score the selection measured for a candidate
TrainingScore(c) == oracle[c].avg_score

\* C13: on normal completion the selector picks, among the available
\* candidates, one whose re-evaluated training score is at least that of every
\* other available candidate, records that candidate's own label, never
\* selects a missing candidate, and on equal scores the earliest in the order
\* optimizer, hybrid, tracked wins.
C13_SelectsFirstMaximum ==
    (pc = "local" /\ ~interrupted) =>
        /\ best_params_raw # None
        /\ \E k \in 1..3 :
              /\ Available[k].params # None
              /\ best_params_raw = Available[k].params
              /\ best_source = <<Available[k].source>>
              /\ best_score = TrainingScore(Available[k].params)
              /\ \A j \in 1..3 :
                    Available[j].params # None =>
                        /\ RLeq(TrainingScore(Available[j].params), best_score)
                        /\ j < k => RLess(TrainingScore(Available[j].params), best_score)

\* the hybrid, a parameter set of its own, tied with the optimizer's best
\* point, and the optimizer's best point was selected under its own label
C13_Witness ==
    /\ pc = "local"
    /\ ~interrupted
    /\ HybridCandidate # None
    /\ HybridCandidate # opt_result.x
    /\ TrainingScore(HybridCandidate) = TrainingScore(opt_result.x)
    /\ best_params_raw = opt_result.x
    /\ best_source = <<"Optimizer Best">>

-----------------------------------------------------------------------------
(* Claims about the end-to-end scoring, checked under SpecEval *)

\* the outcome the claim names: every image has F1 = 1 and color accuracy = 1
\* and the averaged combined score lies in [89, 90]
PerfectWithin89And90 ==
    /\ \A k \in 1..Len(per_image) :
          per_image[k].f1 = R(1) /\ per_image[k].color_accuracy = R(1)
    /\ RLeq(R(89), eval_return)
    /\ RLeq(eval_return, R(90))

\* any two annotated circles of the image are at least 10 px apart
WellSeparated(img) ==
    \A j, k \in 1..Len(img.poks) :
        j # k => (img.poks[j].x - img.poks[k].x) * (img.poks[j].x - img.poks[k].x)
                 + (img.poks[j].y - img.poks[k].y) * (img.poks[j].y - img.poks[k].y)
                 >= 100

\* C14 as stated: for any 2 images with 3 annotated circles each (mixed
\* red/blue) and a match threshold of 50, detections that are the annotations
\* with the same colors, displaced by less than 5 px, give every image F1 = 1
\* and color accuracy = 1 and an averaged combined score in [89, 90].
C14_EndToEndAnyLayout == epc = "returned" => PerfectWithin89And90

\* C14 amended: the same, for images whose annotated circles are pairwise at
\* least 10 px apart.
C14_EndToEndSeparated ==
    (epc = "returned" /\ \A k \in 1..Len(eval_set) : WellSeparated(eval_set[k]))
        => PerfectWithin89And90

\* two images scored, one of them with circles exactly 10 px apart
C14_Witness ==
    /\ epc = "returned"
    /\ Len(per_image) = 2
    /\ \A k \in 1..2 : WellSeparated(eval_set[k])
    /\ \E k \in 1..2 : eval_set[k].poks[2].x - eval_set[k].poks[1].x = 10
    /\ RLess(R(89), eval_return)

-----------------------------------------------------------------------------
(* Claims about the exported record, checked under SpecRescale *)

\* C15: every parameter record that calibration returns and writes has each
\* field inside the declared DetectorParams range, so a record written by
\* calibrate is accepted when validate loads it through DetectorParams
\* validation.
C15_ExportedValidates == rpc = "returned" => Validates(exported)

\* C16: at every call of evaluate_params made during a calibration run, the
\* final scoring on the training and validation partitions included, every
\* field of the evaluated parameter vector lies within its declared closed
\* bound.
C16_EvaluatedInSpace == \A k \in 1..Len(scored_with) : InSpace(scored_with[k])

-----------------------------------------------------------------------------
(* Claims about cancellation, checked under Spec *)

\* the slot is empty, or its score and its parameters are those of one and the
\* same completed evaluation
SlotOfOneEvaluation(slot_score, slot_params, criterion) ==
    \/ slot_score = NegInf /\ slot_params = None
    \/ \E k \in 1..Len(completed) :
          /\ slot_score = completed[k].result[criterion]
          /\ slot_params = completed[k].params

\* C17: cancellation is observed only between objective evaluations: an
\* evaluation that has started runs to completion, so whenever the abort is
\* handled each tracked-best slot's score and parameters belong to the same
\* completed evaluation.
C17_AbortBetweenEvaluations ==
    (interrupted /\ pc = "L560") =>
        /\ evals_started = evals_completed
        /\ SlotOfOneEvaluation(tracked.best_score, tracked.best_params, "avg_score")
        /\ SlotOfOneEvaluation(tracked.best_detection_score,
                               tracked.best_detection_params, "detection_score")
        /\ SlotOfOneEvaluation(tracked.best_color_score,
                               tracked.best_color_params, "color_score")

-----------------------------------------------------------------------------
(* Claims about acceptance, escape and labelling in the local refinement,   *)
(* checked under SpecLocal                                                   *)

\* the step is one iteration of the refinement loop
IterationStep == iter' = iter + 1

\* the iteration took the branch of lines 665-668: the neighbour was accepted
Accepted == improvements' = improvements + 1

\* the iteration took the branch of lines 681-683: the current point was reset
Escaped == improvements' = improvements /\ no_improvement_count' = 0

C19_EscapeOnTenth ==
    [][IterationStep =>
          (Escaped <=> (~Accepted /\ no_improvement_count = 9))]_vars

\* C19 amended: the reset happens exactly on the 11th consecutive
\* non-improving iteration, when the counter, incremented, exceeds 10; the
\* current point becomes a perturbation of the best-known point with the
\* best-known score and the counter returns to 0.
C19_EscapeOnEleventh ==
    [][IterationStep =>
          /\ Escaped <=> (~Accepted /\ no_improvement_count = 10)
          /\ Escaped =>
                /\ current_score' = best_score
                /\ best_params_raw' = best_params_raw
                /\ \E jump \in Draws :
                      current_params' = NeighborParams(best_params_raw, jump)]_vars

\* eleven iterations without improvement: the current point left the best one
C19_Witness ==
    /\ pc = "L659"
    /\ iter = 11
    /\ improvements = 0
    /\ no_improvement_count = 0
    /\ current_params # best_params_raw
    /\ current_score = best_score

\* how many times the marker occurs in the source label
MarkerCount(source) ==
    Cardinality({k \in 1..Len(source) : source[k] = "+ Local Search"})

\* C20: after any refinement run the source label contains the marker
\* "+ Local Search" exactly once if at least one new global best was promoted
\* during the refinement and not at all otherwise; repeated promotions never
\* append it again.
C20_MarkerOnce ==
    pc \in {"L659", "L695"} =>
        MarkerCount(best_source) = IF RLess(initial_score, best_score) THEN 1 ELSE 0

\* a run that promoted two new bests and ended with the marker once
C20_Witness ==
    /\ pc = "L695"
    /\ improvements = 2
    /\ best_score = R(2)
    /\ initial_score = R(0)
    /\ MarkerCount(best_source) = 1
    /\ Len(best_source) = 2

-----------------------------------------------------------------------------
(* Claims about neighbor_params, checked under SpecNeighbor *)

\* the fields in which the returned set differs from the base
ChangedFields == {k \in DOMAIN base_at_call : neighbor_return[k] # base_at_call[k]}

\* how far field k moved, in units of its step size
StepsMoved(k) ==
    LET d == IF k = "dp"
             THEN RDiv(RSub(neighbor_return.dp, base_at_call.dp), StepSizes.dp)
             ELSE RDiv(R(neighbor_return[k] - base_at_call[k]), R(StepSizes[k]))
    IN  IF RLess(d, R(0)) THEN RSub(R(0), d) ELSE d

\* field k of the returned set sits on one of its bounds
Clamped(k) == neighbor_return[k] \in {ParamLow[k], ParamHigh[k]}

\* the steps the call drew for field k, summed over its mutations
RECURSIVE StepsDrawnIn(_, _)
StepsDrawnIn(draws, k) ==
    IF draws = <<>> THEN 0
    ELSE (IF Head(draws).name = k THEN Head(draws).steps ELSE 0)
         + StepsDrawnIn(Tail(draws), k)

\* C21 as stated: each call of neighbor_params on an in-bounds parameter set
\* returns a set that differs from the base in at least 1 and at most 3 of
\* the 16 tunable fields, each changed field by 1 or 2 of its steps unless
\* clamped to its bound, and leaves the base itself unmodified.
C21_OneToThreeFields ==
    npc = "returned" =>
        /\ ChangedFields \subseteq ParamNames
        /\ Cardinality(ChangedFields) \in 1..3
        /\ \A k \in ChangedFields : StepsMoved(k) \in {R(1), R(2)} \/ Clamped(k)
        /\ base_dict = base_at_call

\* C21 amended: the call applies 1 to 3 mutations, each to a field drawn
\* afresh from the 16 tunable ones and each moving its field by 1 or 2 steps
\* before clamping; so the returned set stays in bounds, differs from the
\* base in at most 3 fields (possibly in none), no field moves further than
\* the steps drawn for it add up to (at most 6), and the base is unmodified.
C21_UpToThreeMutations ==
    npc = "returned" =>
        /\ Len(neighbor_draws) \in 1..3
        /\ \A i \in 1..Len(neighbor_draws) : neighbor_draws[i].steps \in {1, 2}
        /\ ChangedFields \subseteq ParamNames
        /\ Cardinality(ChangedFields) <= 3
        /\ \A k \in ParamNames :
              /\ RLeq(StepsMoved(k), R(StepsDrawnIn(neighbor_draws, k)))
              /\ StepsDrawnIn(neighbor_draws, k) <= 6
        /\ InSpace(neighbor_return)
        /\ base_dict = base_at_call

\* a call that drew one field three times and moved it 5 steps, unclamped
C21_Witness ==
    /\ npc = "returned"
    /\ base_at_call = ParamX0
    /\ neighbor_draws = <<[name |-> "param1", sign |-> 1, steps |-> 2],
                          [name |-> "param1", sign |-> 1, steps |-> 2],
                          [name |-> "param1", sign |-> 1, steps |-> 1]>>
    /\ neighbor_return.param1 = 150
    /\ ChangedFields = {"param1"}

-----------------------------------------------------------------------------
(* Claims about the hybrid candidate, checked under Spec *)

\* the step in which lines 574-643 run
SelectionStep == pc = "L560" /\ pc' = "local" /\ ~interrupted

\* C22: the hybrid candidate takes its 6 detection fields from the tracked
\* best-by-detection parameter set and its 12 color fields from the tracked
\* best-by-color one, and building it modifies neither of the two.
C22_HybridSplice ==
    [][SelectionStep /\ candidate_2' # None =>
        /\ \A k \in {"dp", "minDist", "param1", "param2", "minRadius", "maxRadius"} :
              candidate_2'[k] = tracked.best_detection_params[k]
        /\ \A k \in {"redH1Low", "redH1High", "redH2Low", "redH2High", "redSMin",
                      "redVMin", "blueH1Low", "blueH1High", "blueH2Low", "blueH2High",
                      "blueSMin", "blueVMin"} :
              candidate_2'[k] = tracked.best_color_params[k]
        /\ tracked'.best_detection_params = tracked.best_detection_params
        /\ tracked'.best_color_params = tracked.best_color_params]_vars

\* a hybrid was built from two different tracked sets and equals neither
C22_Witness ==
    /\ pc = "local"
    /\ ~interrupted
    /\ candidate_2 # None
    /\ candidate_2 # tracked.best_detection_params
    /\ candidate_2 # tracked.best_color_params
    /\ candidate_2.dp = tracked.best_detection_params.dp
    /\ candidate_2.redSMin = tracked.best_color_params.redSMin

-----------------------------------------------------------------------------
(* Claims about the color classifier's pixel tests, checked under SpecColor *)

\* the pixel's hue lies in the closed sub-range [low, high]
HueIn(low, high) == low <= pixel.h /\ pixel.h <= high

\* the sub-range [low, high] counts, a degenerate one being disabled
HueInProper(low, high) == low # high /\ HueIn(low, high)

RedFloors == pixel.s >= color_params.redSMin /\ pixel.v >= color_params.redVMin
BlueFloors == pixel.s >= color_params.blueSMin /\ pixel.v >= color_params.blueVMin

\* C23 as stated: a hue sub-range with equal bounds is disabled for each of
\* the four sub-ranges, so a pixel matches a color iff its hue lies in one of
\* the color's two sub-ranges that is not degenerate and its saturation and
\* value meet the color's floors.
C23_EveryDegenerateDisabled ==
    /\ is_red_ret \in {"True", "False"} =>
          is_red_ret =
             PyBool((\/ HueInProper(color_params.redH1Low, color_params.redH1High)
                     \/ HueInProper(color_params.redH2Low, color_params.redH2High))
                    /\ RedFloors)
    /\ is_blue_ret \in {"True", "False"} =>
          is_blue_ret =
             PyBool((\/ HueInProper(color_params.blueH1Low, color_params.blueH1High)
                     \/ HueInProper(color_params.blueH2Low, color_params.blueH2High))
                    /\ BlueFloors)

\* C23 amended: only blue range 2 is disabled when its bounds are equal; red
\* range 1, red range 2 and blue range 1 are closed intervals, so with equal
\* bounds they still match the one hue equal to the common bound.  A pixel
\* matches a color iff its hue lies in one of the color's two sub-ranges
\* (blue range 2 only when its bounds differ) and its saturation and value meet
\* the color's floors.
C23_OnlyBlue2Disabled ==
    /\ is_red_ret \in {"True", "False"} =>
          is_red_ret =
             PyBool((\/ HueIn(color_params.redH1Low, color_params.redH1High)
                     \/ HueIn(color_params.redH2Low, color_params.redH2High))
                    /\ RedFloors)
    /\ is_blue_ret \in {"True", "False"} =>
          is_blue_ret =
             PyBool((\/ HueIn(color_params.blueH1Low, color_params.blueH1High)
                     \/ HueInProper(color_params.blueH2Low, color_params.blueH2High))
                    /\ BlueFloors)

\* a pixel whose hue is the common bound of a degenerate red range 1 and of a
\* degenerate blue range 2 matched red through the first and did not match blue
C23_Witness ==
    /\ is_red_ret = "True"
    /\ color_params.redH1Low = color_params.redH1High
    /\ pixel.h = color_params.redH1Low
    /\ ~HueIn(color_params.redH2Low, color_params.redH2High)
    /\ is_blue_ret = "False"
    /\ color_params.blueH2Low = color_params.blueH2High
    /\ pixel.h = color_params.blueH2Low
    /\ BlueFloors

-----------------------------------------------------------------------------
(* Further claims about calculate_score, checked under SpecScore *)

\* the call is over, by a return or by an exception
CallOver == spc # "input"

\* one of the two lists is empty
Degenerate == detections = <<>> \/ annotations = <<>>

\* C24 as stated: calculate_score never raises on degenerate inputs; whenever
\* the detection list or the annotation list (or both) is empty, every metric
\* of the returned record is 0.
C24_AllZeroOnEmpty ==
    (CallOver /\ Degenerate) =>
        /\ Scored
        /\ score.precision = R(0)
        /\ score.recall = R(0)
        /\ score.f1 = R(0)
        /\ score.color_accuracy = R(0)
        /\ score.avg_position_error = R(0)
        /\ score.true_positives = 0
        /\ score.false_positives = 0
        /\ score.false_negatives = 0
        /\ score.combined_score = R(0)

\* C24 amended: with a match threshold above 0 calculate_score never raises
\* on degenerate inputs; whenever one of the lists is empty, precision,
\* recall, F1, color accuracy and true_positives are 0, false_positives is
\* the number of detections, false_negatives the number of annotations,
\* avg_position_error the match threshold and combined_score -10.  With a
\* match threshold of 0 the call raises ZeroDivisionError.
C24_DegenerateValues ==
    (CallOver /\ Degenerate) =>
        IF threshold = 0
        THEN spc = "ZeroDivisionError"
        ELSE /\ Scored
             /\ score.precision = R(0)
             /\ score.recall = R(0)
             /\ score.f1 = R(0)
             /\ score.color_accuracy = R(0)
             /\ score.true_positives = 0
             /\ score.false_positives = Len(detections)
             /\ score.false_negatives = Len(annotations)
             /\ score.avg_position_error = R(threshold)
             /\ score.combined_score = R(-10)

\* annotations scored against no detection at all
C24_Witness ==
    /\ Scored
    /\ detections = <<>>
    /\ Len(annotations) >= 2
    /\ score.false_negatives = Len(annotations)
    /\ score.avg_position_error = R(threshold)
    /\ score.combined_score = R(-10)

\* detection j is closer than match_threshold to annotation i
InRange(j, i) == D2(j, i) < threshold * threshold

\* the size of a maximum-cardinality matching of the annotations i, i+1, ...
\* to the detections outside `used`, pairing only circles in range
RECURSIVE MaxMatchingFrom(_, _)
MaxMatchingFrom(i, used) ==
    IF i > Len(annotations) THEN 0
    ELSE LET skip == MaxMatchingFrom(i + 1, used)
             takes == {1 + MaxMatchingFrom(i + 1, used \cup {j}) :
                          j \in {d \in (1..Len(detections)) \ used : InRange(d, i)}}
         IN  CHOOSE m \in takes \cup {skip} : \A n \in takes \cup {skip} : n <= m

MaxMatching == MaxMatchingFrom(1, {})

\* the list in the opposite order
Reverse(s) == [k \in 1..Len(s) |-> s[Len(s) + 1 - k]]

\* C25: the greedy matching is not an optimal assignment: its true-positive
\* count never exceeds the size of a maximum-cardinality matching of
\* annotations to detections within the match threshold.  (That it can be
\* strictly smaller, and that permuting the annotations of the same input
\* can change it, is what the witness state shows.)
C25_AtMostMaximumMatching ==
    Scored =>
        /\ score.true_positives <= MaxMatching
        /\ score.true_positives = Cardinality({i \in 1..Len(assignment) : assignment[i] # 0})
        /\ \A i \in 1..Len(assignment) : assignment[i] # 0 => InRange(assignment[i], i)

\* an input on which the greedy count is strictly below the maximum matching
\* and on which the same annotations in the opposite order score another count
C25_Witness ==
    /\ Scored
    /\ score.true_positives < MaxMatching
    /\ Len(GreedyMatch(detections, Reverse(annotations), threshold).matched)
          # score.true_positives

\* the step in which calculate_score runs and returns
ScoreStep == spc = "input" /\ spc' = "done"

\* C26: for every pair of input lists, true_positives + false_negatives is the
\* number of annotations and true_positives + false_positives the number of
\* detections, and the call leaves both input lists unchanged.
C26_CountConservation ==
    [][ScoreStep =>
        /\ score'.true_positives + score'.false_negatives = Len(annotations)
        /\ score'.true_positives + score'.false_positives = Len(detections)
        /\ detections' = detections
        /\ annotations' = annotations]_vars

\* a call with a matched pair, a detection left over and an annotation left over
C26_Witness ==
    /\ Scored
    /\ score.true_positives >= 1
    /\ score.false_positives >= 1
    /\ score.false_negatives >= 1
    /\ score.true_positives + score.false_negatives = Len(annotations)
    /\ score.true_positives + score.false_positives = Len(detections)

-----------------------------------------------------------------------------
(* Claims about the training partition, checked under Spec *)

\* load_dataset accepted the dataset and the split was made
Loaded == pc \notin {"idle", "new", "load_failed"}

\* C27: for every dataset that load accepts (any number n >= 1 of images) the
\* training partition of the 70/30 split is non-empty, so the evaluation of a
\* parameter set on the training partition is always defined and never fails.
C27_TrainingNeverEmpty ==
    Loaded =>
        /\ train_set # <<>>
        /\ pc # "ZeroDivisionError"

-----------------------------------------------------------------------------
(* Further claims about the local refinement, checked under SpecLocal *)

\* the global best was replaced during the step
Promoted == best_score' # best_score \/ best_params_raw' # best_params_raw

\* C28: throughout the local refinement current_score equals best_score at
\* the start of every iteration (and after the last one); so every accepted
\* neighbour is also promoted to the new global best, and the improvements
\* counter counts exactly the promotions of the global best.
C28_CurrentTracksBest ==
    [][IterationStep =>
        /\ current_score = best_score
        /\ current_score' = best_score'
        /\ Accepted => (Promoted /\ best_score' = current_score'
                                 /\ best_params_raw' = current_params'
                                 /\ RLess(best_score, best_score'))
        /\ Promoted => Accepted
        /\ improvements' = improvements + (IF Promoted THEN 1 ELSE 0)]_vars

\* a promotion was counted, then the climb escaped to an unevaluated
\* neighbour of the best: the scores still agree while the points differ
C28_Witness ==
    /\ pc = "L659"
    /\ improvements = 1
    /\ current_score = best_score
    /\ RLess(initial_score, best_score)
    /\ current_params # best_params_raw

-----------------------------------------------------------------------------
(* Claims about the param_source label, checked under SpecLabel *)

\* main's test of line 837, "Interrupted" in param_source: of the parts a
\* label is made of, only the one of line 572 holds the word
MentionsInterrupted(source) ==
    \E k \in 1..Len(source) : source[k] = "Interrupted - Tracked Best"

\* C29: the param_source label contains "Interrupted" if and only if the
\* global search was interrupted, whatever the local refinement does
\* afterwards; after a normal completion the label starts with "Optimizer
\* Best", "Hybrid (Best Det + Best Color)" or "Tracked Best".
C29_LabelTellsInterruption ==
    best_source # <<>> =>
        /\ MentionsInterrupted(best_source) <=> interrupted
        /\ ~interrupted =>
              best_source[1] \in {"Optimizer Best", "Hybrid (Best Det + Best Color)",
                                  "Tracked Best"}

\* the refinement improved on the seed of an interrupted search and the label
\* returned still says so
C29_Witness ==
    /\ pc = "L695"
    /\ interrupted
    /\ improvements >= 1
    /\ best_source = <<"Interrupted - Tracked Best", "+ Local Search">>
====
